---- MODULE Spec2Model ----
(***************************************************************************)
(* Verification model of cortexluna: the provider config pool, the         *)
(* concurrency limiter, the retry wrapper, the tool-call engine and the    *)
(* streamText producer.  Each component has its own specification; the     *)
(* variables of the other components stay at their initial values.         *)
(***************************************************************************)
EXTENDS Integers, Sequences, FiniteSets, TLC

VARIABLES
    \* ---- provider config pool (packages/core/src/provider/config.ts)
    providers,      \* the `providers` array of ProviderState objects; an
                    \* object is referred to by its position in the array
    rrIndex,        \* the round-robin cursor
    handles,        \* ProviderHandle closures handed out: a bag of
                    \* <<object reference, 1 if release() was called else 0>>
    op,             \* the last pool operation: "getProvider" (returned),
                    \* "getProviderThrow", "addProvider" or "other"
    winSel,         \* selections of the current run of round-robin calls
    winAvail,       \* the available set of that run
    winHeld,        \* TRUE while the run's last handle is not yet released
    \* ---- concurrency limiter (createConcurrencyLimiter)
    concurrency,    \* the `concurrency` parameter
    pending,        \* the `pending` counter
    queue,          \* the `queue` array: <<task number, task kind>> entries
    taskStatus,     \* per task: "new", "queued", "running", "settled"
                    \* (its promise settled, .finally not yet run), "done",
                    \* or "threw" (task() threw synchronously)
    addPromise,     \* per task: state of the promise add() returned
    idleWaiters,    \* onIdle() promises still polling
    idleResolved,   \* onIdle() promises resolved
    startOrder,     \* task numbers in the order task() was invoked
    \* ---- retry wrapper (createRetry)
    retries,        \* the `retries` option
    shouldRetry,    \* the `shouldRetry` option: "always" (default), "never", "once"
    failFirst,      \* fn rejects on its first failFirst invocations
    retryPc,        \* "idle", "racing", "waiting", "resolved", "rejected"
    attempt,        \* the `attempt` parameter of the current retrier call
    previousAttempts, \* the `previousAttempts` parameter
    fnCalls,        \* number of invocations of fn so far
    fnRunning,      \* invocations of fn whose promise has not settled
    retryResult,    \* value or error the returned promise settled with
    onRetryCalls,   \* number of onRetry callbacks made
    timedOut,       \* TRUE once some attempt lost the race to the timer
    \* ---- tool-call engine (generate/tool-call.ts)
    toolCall,       \* the LanguageModelToolCall argument of parseToolCall
    tools,          \* the `tools` argument
    parsed,         \* outcome of the call: returned part or thrown error
    \* ---- streamText (generate/stream-text.ts)
    maxSteps,       \* the `maxSteps` argument, defaulted
    streamTools,    \* the `tools` argument
    state,          \* the StreamState object `state`
    lastPartType,   \* the `lastPartType` variable
    promises,       \* the nine DelayedPromises of `promises`
    written,        \* parts handed to writer.write, in order
    pipe,           \* baseStream: "open", "closing" (close requested),
                    \* "closed", "errored" (writer.abort) or "cancelled"
    consumer,       \* the fullStream consumer: "reading", "done" (it
                    \* took every part and saw the end), "failed" (its
                    \* read rejected) or "cancelled"
    pc,             \* where processStream is suspended: "start",
                    \* "doStream", "read", "tools", "closing", or ended
                    \* as "done" or "failed"
    aborted,        \* signal.aborted
    rounds,         \* calls of model.doStream made
    readLog,        \* <<round, type, info>> of every chunk read
    responseMessages,   \* the messages streamText collects between rounds
    prompts,        \* the prompt of every model.doStream call made
    unread,         \* <<round, type, info>> of the chunks a model stream
                    \* still held when the `break` after the tools left it
    \* ---- generatateText (generate/generate-text.ts)
    genMaxSteps,    \* the `maxSteps` argument, defaulted once the call runs
    genTools,       \* the `tools` argument
    genPc,          \* "start", "doGenerate" (awaiting the model),
                    \* "executeTools" (awaiting the tools), or ended as
                    \* "returned" or "threw"
    stepCount,      \* the `stepCount` variable
    stepType,       \* the `stepType` variable
    returnDirectly, \* the `returnDirectly` variable
    currentToolCalls,   \* the `currentToolCalls` variable
    currentToolResults, \* the `currentToolResults` variable
    currentModelResponse,   \* the `currentModelResponse` variable
    genText,        \* the `text` variable: the model texts it is made of
    genResponseMessages,    \* the `responseMessages` array
    stepResults,    \* the `stepResults` array
    doGenerateCalls,    \* calls of model.doGenerate made
    onErrorCalls,   \* calls of callback.onError made
    genOutcome,     \* the returned result or the thrown error
    entered,        \* the value of stepType at the start of every step
    \* ---- executeTools as it runs (generate/tool-call.ts)
    execTools,      \* the `tools` argument
    execCalls,      \* the `toolCalls` argument
    execPc,         \* "start", "awaiting" (Promise.all pending), or ended
                    \* as "resolved" or "rejected"
    callStatus,     \* per tool call, the promise of its map callback:
                    \* "running", "fulfilled" or "rejected"
    values,         \* the result array Promise.all fills
    execReturnDirectly, \* the `returnDirectly` variable
    completion,     \* positions of the tool calls in completion order
    execOutcome,    \* what executeTools resolved or rejected with
    \* ---- concatChunks (messages/messages.ts)
    chunks,         \* the chunks handed to concatChunks
    merged,         \* outcome of concatChunks(...chunks)
    remerged,       \* outcome of concatChunks applied to that result
    mergePc,        \* "start", "merged" or "remerged"
    \* ---- addLanguageModelUsage (language-models/index.ts)
    usageArgs,      \* the usage records u1, u2, u3
    usageOut,       \* results of the addLanguageModelUsage calls made
    \* ---- DefaultProviderRegistry / CortexLunaService (provider/registry.ts)
    registry,       \* the fields `providers` (ids in insertion order) and
                    \* `_providerModels` of the registry
    refreshes,      \* the promises provider.models()[1], in creation order
    modelsCalls,    \* the models() calls made: by the async function of
                    \* registerProvider or by CortexLunaService.models
    \* ---- OpenAICompatibleLanguageModel.doGenerate over a provider pool
    chat,           \* the doGenerate call in progress: its position, the
                    \* calls started, the retry attempt and `retries`
    requests,       \* the HTTP requests sent: call number and config
    \* ---- a consumer of fullStream as it reads (utils/async-iterable-stream.ts)
    taken           \* how many of the written parts have left baseStream for
                    \* the consumer

poolVars == <<providers, rrIndex, handles, op,
              winSel, winAvail, winHeld>>

limiterVars == <<concurrency, pending, queue, taskStatus, addPromise,
                 idleWaiters, idleResolved, startOrder>>

retryVars == <<retries, shouldRetry, failFirst, retryPc, attempt,
               previousAttempts, fnCalls, fnRunning, retryResult,
               onRetryCalls, timedOut>>

toolVars == <<toolCall, tools, parsed>>

streamVars == <<maxSteps, streamTools, state, lastPartType, promises,
                written, pipe, consumer, pc, aborted, rounds, readLog,
                responseMessages, prompts, unread>>

generateVars == <<genMaxSteps, genTools, genPc, stepCount, stepType,
                  returnDirectly, currentToolCalls, currentToolResults,
                  genText, genResponseMessages, stepResults,
                  doGenerateCalls, onErrorCalls, genOutcome, entered,
                  currentModelResponse>>

executeVars == <<execTools, execCalls, execPc, callStatus, values,
                 execReturnDirectly, completion, execOutcome>>

mergeVars == <<chunks, merged, remerged, mergePc>>

usageVars == <<usageArgs, usageOut>>

registryVars == <<registry, refreshes, modelsCalls>>

chatVars == <<chat, requests>>

deliveryVars == <<taken>>

vars == <<poolVars, limiterVars, retryVars, toolVars, streamVars,
         generateVars,
         executeVars,
         mergeVars,
         usageVars,
         registryVars,
         chatVars,
         deliveryVars>>

\* the variables of the other components, per component
notPool == <<limiterVars, retryVars, toolVars, streamVars,
    generateVars,
    executeVars,
    mergeVars,
    usageVars,
    registryVars,
    chatVars,
    deliveryVars>>
notLimiter == <<poolVars, retryVars, toolVars, streamVars,
    generateVars,
    executeVars,
    mergeVars,
    usageVars,
    registryVars,
    chatVars,
    deliveryVars>>
notRetry == <<poolVars, limiterVars, toolVars, streamVars,
    generateVars,
    executeVars,
    mergeVars,
    usageVars,
    registryVars,
    chatVars,
    deliveryVars>>
notTool == <<poolVars, limiterVars, retryVars, streamVars,
    generateVars,
    executeVars,
    mergeVars,
    usageVars,
    registryVars,
    chatVars,
    deliveryVars>>
notStream == <<poolVars, limiterVars, retryVars, toolVars,
    generateVars,
    executeVars,
    mergeVars,
    usageVars,
    registryVars,
    chatVars,
    deliveryVars>>
notGenerate == <<poolVars, limiterVars, retryVars, toolVars, streamVars,
    executeVars,
    mergeVars,
    usageVars,
    registryVars,
    chatVars,
    deliveryVars>>
notExecute == <<poolVars, limiterVars, retryVars, toolVars, streamVars, generateVars,
    mergeVars,
    usageVars,
    registryVars,
    chatVars,
    deliveryVars>>
notMerge == <<poolVars, limiterVars, retryVars, toolVars, streamVars, generateVars, executeVars,
    usageVars,
    registryVars,
    chatVars,
    deliveryVars>>
notUsage == <<poolVars, limiterVars, retryVars, toolVars, streamVars, generateVars, executeVars, mergeVars,
    registryVars,
    chatVars,
    deliveryVars>>
notRegistry == <<poolVars, limiterVars, retryVars, toolVars, streamVars, generateVars, executeVars, mergeVars, usageVars,
    chatVars,
    deliveryVars>>
notChat == <<poolVars, limiterVars, retryVars, toolVars, streamVars, generateVars, executeVars, mergeVars, usageVars, registryVars,
    deliveryVars>>
notDelivery == <<poolVars, limiterVars, retryVars, toolVars, streamVars, generateVars, executeVars, mergeVars, usageVars, registryVars, chatVars>>

----------------------------------------------------------------------------
(* Bounds *)
MaxHandles == 2     \* handles held by callers at one time
MaxTasks == 3       \* tasks handed to the limiter's add()
MaxConcurrency == 2 \* largest `concurrency` of a limiter
MaxIdleCalls == 2   \* calls of the limiter's onIdle()
MaxRetries == 4     \* largest `retries` option
MaxRounds == 2      \* model.doStream calls whose stream is followed
MaxChunks == 3      \* chunks the model streams in one streamText call

\* `maxSteps = maxSteps ?? 5`
DefaultMaxSteps == 5

----------------------------------------------------------------------------
(* The state a component is left in while another one is exercised.        *)
Tasks == 1..MaxTasks

LimiterParked ==
    /\ concurrency = 1
    /\ pending = 0
    /\ queue = <<>>
    /\ taskStatus = [t \in Tasks |-> "new"]
    /\ addPromise = [t \in Tasks |-> "none"]
    /\ idleWaiters = 0
    /\ idleResolved = 0
    /\ startOrder = <<>>

RetryParked ==
    /\ retries = 0
    /\ shouldRetry = "always"
    /\ failFirst = 0
    /\ retryPc = "idle"
    /\ attempt = 0
    /\ previousAttempts = <<>>
    /\ fnCalls = 0
    /\ fnRunning = 0
    /\ retryResult = "none"
    /\ onRetryCalls = 0
    /\ timedOut = FALSE

ToolParked ==
    /\ toolCall = [toolId |-> "id", toolName |-> "a", arguments |-> ""]
    /\ tools = [defined |-> FALSE, list |-> <<>>]
    /\ parsed = [kind |-> "none"]

NoUsage == [defined |-> FALSE, promptTokens |-> 0, cachedTokens |-> -1,
            completionTokens |-> 0, totalTokens |-> 0]

PromiseNames == {"text", "reasoning", "sources", "finishReason", "usage",
                 "toolCalls", "toolResults", "steps", "metadata"}

createInitialState ==
    [stepText |-> <<>>, fullText |-> <<>>,
     reasoningText |-> [defined |-> FALSE, text |-> <<>>],
     stepSources |-> <<>>, sources |-> <<>>,
     toolCalls |-> <<>>, toolResults |-> <<>>,
     finishReason |-> "undefined", usage |-> NoUsage,
     steps |-> <<>>, metadata |-> <<>>,
     currentStep |-> -1, currentStepState |-> "initial"]

GenerateParked ==
    /\ genMaxSteps = DefaultMaxSteps
    /\ genTools = [defined |-> FALSE, list |-> <<>>]
    /\ genPc = "start"
    /\ stepCount = 0
    /\ stepType = "initial"
    /\ returnDirectly = FALSE
    /\ currentToolCalls = <<>>
    /\ currentToolResults = <<>>
    /\ currentModelResponse = [finishReason |-> "undefined", toolCalls |-> <<>>]
    /\ genText = <<>>
    /\ genResponseMessages = <<>>
    /\ stepResults = <<>>
    /\ doGenerateCalls = 0
    /\ onErrorCalls = 0
    /\ genOutcome = [kind |-> "none"]
    /\ entered = <<>>

ExecuteParked ==
    /\ execTools = <<>>
    /\ execCalls = <<>>
    /\ execPc = "start"
    /\ callStatus = <<>>
    /\ values = <<>>
    /\ execReturnDirectly = FALSE
    /\ completion = <<>>
    /\ execOutcome = [kind |-> "none"]

MergeParked ==
    /\ chunks = <<>>
    /\ merged = [kind |-> "none"]
    /\ remerged = [kind |-> "none"]
    /\ mergePc = "start"

UsageParked ==
    /\ usageArgs = <<>>
    /\ usageOut = <<>>

RegistryParked ==
    /\ registry = <<>>
    /\ refreshes = <<>>
    /\ modelsCalls = <<>>

ChatParked ==
    /\ chat = [pc |-> "parked"]
    /\ requests = <<>>

DeliveryParked == taken = 0

NewDelayedPromise == [status |-> "pending", settles |-> 0, value |-> "none"]

StreamParked ==
    /\ maxSteps = DefaultMaxSteps
    /\ streamTools = [defined |-> FALSE, list |-> <<>>]
    /\ state = createInitialState
    /\ lastPartType = ""
    /\ promises = [n \in PromiseNames |-> NewDelayedPromise]
    /\ written = <<>>
    /\ pipe = "open"
    /\ consumer = "reading"
    /\ pc = "start"
    /\ aborted = FALSE
    /\ rounds = 0
    /\ readLog = <<>>
    /\ responseMessages = <<>>
    /\ prompts = <<>>
    /\ unread = <<>>

----------------------------------------------------------------------------
(* ProviderConfig literals.  A config is the sequence of its own           *)
(* <<key, value>> pairs in insertion order; UNDEF is the value undefined.  *)
UNDEF == -1

\* keys in the order Array.prototype.sort() puts them
ConfigKeys == <<"apiKey", "baseURL", "maxConcurrentRequests", "maxRetries", "timeout">>

ConfigLiterals ==
    { << <<"apiKey", 1>> >>,
      << <<"apiKey", 2>>, <<"maxConcurrentRequests", 1>> >>,
      << <<"maxConcurrentRequests", 1>>, <<"apiKey", 2>> >>,
      << <<"apiKey", 3>>, <<"baseURL", UNDEF>>, <<"maxConcurrentRequests", 0>> >> }

ConfigGet(config, key) ==
    IF \E i \in 1..Len(config) : config[i][1] = key
    THEN LET i == CHOOSE j \in 1..Len(config) : config[j][1] = key
         IN config[i][2]
    ELSE UNDEF

KeyRank(k) == CHOOSE i \in 1..Len(ConfigKeys) : ConfigKeys[i] = k

RECURSIVE InsertKey(_, _)
InsertKey(sorted, k) ==
    IF sorted = <<>> THEN <<k>>
    ELSE IF KeyRank(k) < KeyRank(Head(sorted)) THEN <<k>> \o sorted
    ELSE <<Head(sorted)>> \o InsertKey(Tail(sorted), k)

RECURSIVE SortKeys(_)
SortKeys(keys) ==
    IF keys = <<>> THEN <<>>
    ELSE InsertKey(SortKeys(Tail(keys)), Head(keys))

ObjectKeys(config) == [i \in 1..Len(config) |-> config[i][1]]

RECURSIVE ReduceDefined(_, _)
ReduceDefined(config, keys) ==
    IF keys = <<>> THEN <<>>
    ELSE (IF ConfigGet(config, Head(keys)) # UNDEF
          THEN << <<Head(keys), ConfigGet(config, Head(keys))>> >>
          ELSE <<>>) \o ReduceDefined(config, Tail(keys))

\* a key normalisation that keeps insertion order (no sort)
NormalizeUnsorted(config) == ReduceDefined(config, ObjectKeys(config))

NormalizeConfig(config) == ReduceDefined(config, SortKeys(ObjectKeys(config)))

\* JSON.stringify and sha1 are injective on the normalised objects, so the
\* id is represented by the normalised pair sequence itself
generateConfigId(config) == NormalizeConfig(config)

ConfigIds == { generateConfigId(c) : c \in ConfigLiterals }

----------------------------------------------------------------------------
(* Availability and the selection strategies *)
Strategies == {"round-robin", "random", "least-concurrent", "weighted-random", "fallback"}

\* x || y of JavaScript, for a numeric or undefined x
Truthy(x) == x # UNDEF /\ x # 0

\* a filter that admits a config which is already at its cap
IsAvailableOffByOne(p) ==
    /\ p.enabled
    /\ LET m == ConfigGet(p.config, "maxConcurrentRequests")
       IN IF Truthy(m) THEN p.currentConcurrent <= m ELSE TRUE

\* a filter that ignores the enabled flag
IsAvailableIgnoreEnabled(p) ==
    LET m == ConfigGet(p.config, "maxConcurrentRequests")
    IN IF Truthy(m) THEN p.currentConcurrent < m ELSE TRUE

IsAvailable(p) ==
    /\ p.enabled
    /\ LET m == ConfigGet(p.config, "maxConcurrentRequests")
       IN IF Truthy(m) THEN p.currentConcurrent < m ELSE TRUE

Positions == [i \in 1..Len(providers) |-> i]

getAvailableProviders == SelectSeq(Positions, LAMBDA o : IsAvailable(providers[o]))

\* the cursor wrapped modulo the total number of stored configs
RoundRobinAdvanceTotal(rr, n) == (rr + 1) % Len(providers)

RoundRobinAdvance(rr, n) == (rr + 1) % n

RoundRobin(available, rr) ==
    { [sel |-> available[(rr % Len(available)) + 1],
       rr  |-> RoundRobinAdvance(rr, Len(available))] }

\* Math.floor(Math.random() * available.length) is any index
Random(available, rr) ==
    { [sel |-> available[i], rr |-> rr] : i \in 1..Len(available) }

RECURSIVE LeastConcurrentFrom(_, _)
LeastConcurrentFrom(prev, rest) ==
    IF rest = <<>> THEN prev
    ELSE LeastConcurrentFrom(
            IF providers[Head(rest)].currentConcurrent < providers[prev].currentConcurrent
            THEN Head(rest) ELSE prev,
            Tail(rest))

LeastConcurrent(available, rr) ==
    { [sel |-> LeastConcurrentFrom(Head(available), Tail(available)), rr |-> rr] }

Weight(o) ==
    LET m == ConfigGet(providers[o].config, "maxConcurrentRequests")
    IN IF Truthy(m) THEN m ELSE 10

RECURSIVE SumWeights(_)
SumWeights(s) == IF s = <<>> THEN 0 ELSE Weight(Head(s)) + SumWeights(Tail(s))

\* the sample Math.random() * totalWeight is given in halves: random2 / 2
RECURSIVE WeightedPick(_, _, _, _)
WeightedPick(available, rest, current, random2) ==
    IF rest = <<>> THEN available[1]
    ELSE IF random2 <= 2 * (current + Weight(Head(rest))) THEN Head(rest)
    ELSE WeightedPick(available, Tail(rest), current + Weight(Head(rest)), random2)

WeightedRandom(available, rr) ==
    { [sel |-> WeightedPick(available, available, 0, r2), rr |-> rr] :
        r2 \in 0..(2 * SumWeights(available) - 1) }

\* a fallback that returns the first stored config whatever its state
FallbackFirstStored(available, rr) == { [sel |-> 1, rr |-> rr] }

Fallback(available, rr) ==
    { [sel |-> IF \E i \in 1..Len(available) : providers[available[i]].currentConcurrent = 0
               THEN available[CHOOSE i \in 1..Len(available) :
                        /\ providers[available[i]].currentConcurrent = 0
                        /\ \A j \in 1..(i-1) : providers[available[j]].currentConcurrent # 0]
               ELSE available[1],
       rr |-> rr] }

strategyHandlers(s, available, rr) ==
    CASE s = "round-robin"      -> RoundRobin(available, rr)
      [] s = "random"           -> Random(available, rr)
      [] s = "least-concurrent" -> LeastConcurrent(available, rr)
      [] s = "weighted-random"  -> WeightedRandom(available, rr)
      [] s = "fallback"         -> Fallback(available, rr)

----------------------------------------------------------------------------
(* Pool operations *)
HandleKinds == (1..Cardinality(ConfigIds)) \X {0, 1}

RECURSIVE SumBag(_, _)
SumBag(b, ks) ==
    IF ks = {} THEN 0
    ELSE LET k == CHOOSE x \in ks : TRUE IN b[k] + SumBag(b, ks \ {k})

HandleCount == SumBag(handles, HandleKinds)

HandleAdd(b, k) == [b EXCEPT ![k] = @ + 1]

HandleRemove(b, k) == [b EXCEPT ![k] = @ - 1]

StoredIds == { providers[i].id : i \in 1..Len(providers) }

FindById(id) ==
    CHOOSE i \in 1..Len(providers) :
        /\ providers[i].id = id
        /\ \A j \in 1..(i-1) : providers[j].id # id

ResetWindow ==
    /\ winSel' = <<>>
    /\ winAvail' = {}
    /\ winHeld' = FALSE

addProvider(config) ==
    /\ UNCHANGED notPool
    /\ LET id == generateConfigId(config)
       IN IF id \notin StoredIds
          THEN providers' = Append(providers, [id |-> id, config |-> config,
                                               currentConcurrent |-> 0, enabled |-> TRUE])
          ELSE UNCHANGED providers
    /\ op' = "addProvider"
    /\ ResetWindow
    /\ UNCHANGED <<rrIndex, handles>>

setProviderStatus(id, enabled) ==
    /\ UNCHANGED notPool
    /\ IF id \in StoredIds
       THEN providers' = [providers EXCEPT ![FindById(id)].enabled = enabled]
       ELSE UNCHANGED providers
    /\ op' = "other"
    /\ ResetWindow
    /\ UNCHANGED <<rrIndex, handles>>

disableProvider(id) ==
    /\ UNCHANGED notPool
    /\ IF id \in StoredIds
       THEN providers' = [providers EXCEPT ![FindById(id)].enabled = FALSE]
       ELSE UNCHANGED providers
    /\ op' = "other"
    /\ ResetWindow
    /\ UNCHANGED <<rrIndex, handles>>

enableProvider(id) ==
    /\ UNCHANGED notPool
    /\ IF id \in StoredIds
       THEN providers' = [providers EXCEPT ![FindById(id)].enabled = TRUE]
       ELSE UNCHANGED providers
    /\ op' = "other"
    /\ ResetWindow
    /\ UNCHANGED <<rrIndex, handles>>

\* positions of the objects that providers.filter((p) => p.id !== id) keeps
KeptPositions(id) == SelectSeq(Positions, LAMBDA o : providers[o].id # id)

\* The filtered-out object is no longer reachable from the pool: handles
\* that still refer to it act on the detached object only, which no pool
\* operation reads, so those handles are not followed further.  The other
\* handles keep referring to their objects at the new positions.
removeProvider(id) ==
    /\ UNCHANGED notPool
    /\ providers' = SelectSeq(providers, LAMBDA p : p.id # id)
    /\ handles' = [k \in HandleKinds |->
                    IF k[1] <= Len(KeptPositions(id))
                    THEN handles[<<KeptPositions(id)[k[1]], k[2]>>]
                    ELSE 0]
    /\ op' = "other"
    /\ ResetWindow
    /\ UNCHANGED rrIndex

AvailableSet(available) == { available[i] : i \in 1..Len(available) }

LastN(s, n) == IF Len(s) <= n THEN s ELSE SubSeq(s, Len(s) - n + 1, Len(s))

\* methodStrategy is the strategy in effect for the call: the argument, or
\* the pool's default (createProviderPool's parameter or the last
\* setStrategy) when it is omitted; either way one of the five strategies
getProvider(methodStrategy) ==
    LET available == getAvailableProviders
        s == methodStrategy
    IN IF Len(available) = 0
          THEN /\ UNCHANGED notPool
               /\ op' = "getProviderThrow"
               /\ ResetWindow
               /\ UNCHANGED <<providers, rrIndex, handles>>
          ELSE /\ UNCHANGED notPool
               /\ HandleCount < MaxHandles
               /\ \E r \in strategyHandlers(s, available, rrIndex) :
                    /\ providers' = [providers EXCEPT ![r.sel].currentConcurrent = @ + 1]
                    /\ rrIndex' = r.rr
                    /\ handles' = HandleAdd(handles, <<r.sel, 0>>)
                    /\ IF s # "round-robin"
                       THEN ResetWindow
                       ELSE IF winSel # <<>> /\ ~winHeld
                               /\ winAvail = AvailableSet(available)
                       THEN /\ winSel' = LastN(Append(winSel, r.sel),
                                               Cardinality(winAvail))
                            /\ winHeld' = TRUE
                            /\ UNCHANGED winAvail
                       ELSE /\ winSel' = <<r.sel>>
                            /\ winAvail' = AvailableSet(available)
                            /\ winHeld' = TRUE
               /\ op' = "getProvider"

\* handle.release(); a handle may be released any number of times
release(h) ==
    /\ UNCHANGED notPool
    /\ h \in HandleKinds /\ handles[h] > 0
    /\ providers' = [providers EXCEPT ![h[1]].currentConcurrent =
                        IF @ - 1 > 0 THEN @ - 1 ELSE 0]
    /\ handles' = HandleAdd(HandleRemove(handles, h), <<h[1], 1>>)
    /\ op' = "other"
    /\ IF winHeld /\ h = <<winSel[Len(winSel)], 0>>
       THEN winHeld' = FALSE /\ UNCHANGED <<winSel, winAvail>>
       ELSE ResetWindow
    /\ UNCHANGED rrIndex

handleDisable(h) ==
    /\ UNCHANGED notPool
    /\ h \in HandleKinds /\ handles[h] > 0
    /\ providers' = [providers EXCEPT ![h[1]].enabled = FALSE]
    /\ op' = "other"
    /\ ResetWindow
    /\ UNCHANGED <<rrIndex, handles>>

handleEnable(h) ==
    /\ UNCHANGED notPool
    /\ h \in HandleKinds /\ handles[h] > 0
    /\ providers' = [providers EXCEPT ![h[1]].enabled = TRUE]
    /\ op' = "other"
    /\ ResetWindow
    /\ UNCHANGED <<rrIndex, handles>>

\* the caller drops its reference to a handle it has released; this is
\* not a pool operation
discardHandle(h) ==
    /\ UNCHANGED notPool
    /\ h \in HandleKinds /\ handles[h] > 0 /\ h[2] > 0
    /\ handles' = HandleRemove(handles, h)
    /\ op' = "other"
    /\ UNCHANGED <<providers, rrIndex, winSel, winAvail, winHeld>>

getStatus ==
    [i \in 1..Len(providers) |->
        [id |-> providers[i].id,
         enabled |-> providers[i].enabled,
         config |-> providers[i].config,
         currentConcurrent |-> providers[i].currentConcurrent]]

\* createProviderPool(strategy = 'round-robin')
createProviderPool ==
    /\ providers = <<>>
    /\ rrIndex = 0
    /\ handles = [k \in HandleKinds |-> 0]
    /\ op = "other"
    /\ winSel = <<>> /\ winAvail = {} /\ winHeld = FALSE

Init ==
    /\ createProviderPool
    /\ LimiterParked /\ RetryParked /\ ToolParked /\ StreamParked
    /\ GenerateParked /\ ExecuteParked /\ MergeParked /\ UsageParked
    /\ RegistryParked /\ ChatParked /\ DeliveryParked

Next ==
    \/ \E c \in ConfigLiterals : addProvider(c)
    \/ \E id \in ConfigIds : disableProvider(id)
    \/ \E id \in ConfigIds : enableProvider(id)
    \/ \E id \in ConfigIds, b \in BOOLEAN : setProviderStatus(id, b)
    \/ \E id \in ConfigIds : removeProvider(id)
    \/ \E s \in Strategies : getProvider(s)
    \/ \E h \in HandleKinds : release(h)
    \/ \E h \in HandleKinds : handleDisable(h)
    \/ \E h \in HandleKinds : handleEnable(h)
    \/ \E h \in HandleKinds : discardHandle(h)

Spec == Init /\ [][Next]_vars

----------------------------------------------------------------------------
(* Concurrency limiter: createConcurrencyLimiter(concurrency).             *)
(* Tasks are numbered in the order they are handed to add().  A task is    *)
(* either "async" (task() returns a promise that settles later) or         *)
(* "throws" (task() throws before it returns a promise).                   *)
TaskKinds == {"async", "throws"}

\* the guard `pending >= concurrency` of next(), displaced by one
LimiterFullOffByOne(p) == p > concurrency

\* the guard `pending >= concurrency` of next()
LimiterFull(p) == p >= concurrency

\* taking the entry added last instead of the one added first
QueuePop(q) == [entry |-> q[Len(q)], rest |-> SubSeq(q, 1, Len(q) - 1)]

\* queue.shift(): the entry taken and the entries left
QueueShift(q) == [entry |-> Head(q), rest |-> Tail(q)]

\* next(): l is the limiter state it works on; l.thrown tells whether the
\* call ends with an exception thrown by task()
RECURSIVE next(_)
next(l) ==
    IF LimiterFull(l.pending) \/ Len(l.queue) = 0
    THEN l
    ELSE LET e == QueueShift(l.queue).entry
             m == [l EXCEPT !.queue = QueueShift(@).rest,
                            !.pending = @ + 1,
                            !.startOrder = Append(@, e[1])]
         IN IF e[2] = "throws"
            THEN [m EXCEPT !.taskStatus[e[1]] = "threw", !.thrown = TRUE]
            ELSE next([m EXCEPT !.taskStatus[e[1]] = "running"])

LimiterState ==
    [pending |-> pending, queue |-> queue, taskStatus |-> taskStatus,
     startOrder |-> startOrder, thrown |-> FALSE]

NextTask == CHOOSE t \in Tasks :
                /\ taskStatus[t] = "new"
                /\ \A u \in 1..(t-1) : taskStatus[u] # "new"

\* add(task): the executor pushes the entry and calls next(); an exception
\* leaving next() rejects the promise under construction
add(kind) ==
    /\ UNCHANGED notLimiter
    /\ \E t \in Tasks : taskStatus[t] = "new"
    /\ LET t == NextTask
           l == next([LimiterState EXCEPT
                        !.queue = Append(@, <<t, kind>>),
                        !.taskStatus[t] = "queued"])
       IN /\ pending' = l.pending
          /\ queue' = l.queue
          /\ taskStatus' = l.taskStatus
          /\ startOrder' = l.startOrder
          /\ addPromise' = [addPromise EXCEPT ![t] =
                                IF l.thrown THEN "rejected" ELSE "pending"]
    /\ UNCHANGED <<concurrency, idleWaiters, idleResolved>>

\* the promise task() returned settles: .then(resolve) or .catch(reject)
taskSettles(t, outcome) ==
    /\ UNCHANGED notLimiter
    /\ taskStatus[t] = "running"
    /\ taskStatus' = [taskStatus EXCEPT ![t] = "settled"]
    /\ addPromise' = [addPromise EXCEPT ![t] =
                        IF @ = "pending" THEN outcome ELSE @]
    /\ UNCHANGED <<concurrency, pending, queue, idleWaiters, idleResolved,
                   startOrder>>

\* the .finally callback: pending--, next()
taskFinally(t) ==
    /\ UNCHANGED notLimiter
    /\ taskStatus[t] = "settled"
    /\ LET l == next([LimiterState EXCEPT
                        !.pending = @ - 1,
                        !.taskStatus[t] = "done"])
       IN /\ pending' = l.pending
          /\ queue' = l.queue
          /\ taskStatus' = l.taskStatus
          /\ startOrder' = l.startOrder
    /\ UNCHANGED <<concurrency, addPromise, idleWaiters, idleResolved>>

\* the test of check() looking at the queue only
LimiterIdleQueueOnly == Len(queue) = 0

LimiterIdle == Len(queue) = 0 /\ pending = 0

\* onIdle(): check() runs once in the executor
onIdle ==
    /\ UNCHANGED notLimiter
    /\ idleWaiters + idleResolved < MaxIdleCalls
    /\ IF LimiterIdle
       THEN idleResolved' = idleResolved + 1 /\ UNCHANGED idleWaiters
       ELSE idleWaiters' = idleWaiters + 1 /\ UNCHANGED idleResolved
    /\ UNCHANGED <<concurrency, pending, queue, taskStatus, addPromise,
                   startOrder>>

\* a setTimeout(check, 0) timer of an onIdle() promise fires
idleCheck ==
    /\ UNCHANGED notLimiter
    /\ idleWaiters > 0
    /\ IF LimiterIdle
       THEN /\ idleWaiters' = idleWaiters - 1
            /\ idleResolved' = idleResolved + 1
       ELSE UNCHANGED <<idleWaiters, idleResolved>>
    /\ UNCHANGED <<concurrency, pending, queue, taskStatus, addPromise,
                   startOrder>>

createConcurrencyLimiter(c) ==
    /\ concurrency = c
    /\ pending = 0
    /\ queue = <<>>
    /\ taskStatus = [t \in Tasks |-> "new"]
    /\ addPromise = [t \in Tasks |-> "none"]
    /\ idleWaiters = 0
    /\ idleResolved = 0
    /\ startOrder = <<>>

LimiterInit ==
    /\ \E c \in 1..MaxConcurrency : createConcurrencyLimiter(c)
    /\ createProviderPool /\ RetryParked /\ ToolParked /\ StreamParked
    /\ GenerateParked /\ ExecuteParked /\ MergeParked /\ UsageParked
    /\ RegistryParked /\ ChatParked /\ DeliveryParked

LimiterNext ==
    \/ \E k \in TaskKinds : add(k)
    \/ \E t \in Tasks, o \in {"fulfilled", "rejected"} : taskSettles(t, o)
    \/ \E t \in Tasks : taskFinally(t)
    \/ onIdle
    \/ idleCheck

LimiterSpec == LimiterInit /\ [][LimiterNext]_vars

\* the same limiter where every started task settles, the reactions to a
\* settled promise run, and the setTimeout(check, 0) timers of onIdle fire
LimiterLiveSpec ==
    LimiterInit /\ [][LimiterNext]_vars
        /\ \A t \in Tasks :
              /\ WF_vars(\E o \in {"fulfilled", "rejected"} : taskSettles(t, o))
              /\ WF_vars(taskFinally(t))
        /\ WF_vars(idleCheck)

----------------------------------------------------------------------------
(* Retry wrapper: createRetry(fn, options) of utils, the revision that     *)
(* races every invocation against a maxTimeout timer.  fn rejects on its   *)
(* first failFirst invocations and fulfils on every later one; how long an *)
(* invocation takes is left open.                                          *)
RetryPolicies == {"always", "never", "once"}

\* shouldRetry(error, attempt, retryInfo): the default returns true for
\* every attempt, "never" returns false, "once" allows a retry of attempt 0
\* only
ShouldRetryFlag(policy, a) ==
    policy = "always" \/ (policy = "once" /\ a < 1)

FnOutcome(n) == IF n <= failFirst THEN "error" ELSE "value"

\* the test `attempt >= retries` letting one more attempt through
RetriesExhaustedLate(a) == a > retries

\* the test `attempt >= retries`, displaced by one
RetriesExhaustedEarly(a) == a + 1 >= retries

\* the test `attempt >= retries`
RetriesExhausted(a) == a >= retries

\* the catch block of retrier; the entry appended to previousAttempts is
\* the one the timer callback passes to the next retrier call
\* a catch block that does not consult shouldRetry
CaughtWithoutShouldRetry(error) ==
    IF RetriesExhausted(attempt)
    THEN /\ retryPc' = "rejected"
         /\ retryResult' = error
         /\ UNCHANGED <<previousAttempts, onRetryCalls>>
    ELSE /\ retryPc' = "waiting"
         /\ onRetryCalls' = onRetryCalls + 1
         /\ previousAttempts' = Append(previousAttempts, <<attempt, error>>)
         /\ UNCHANGED retryResult

Caught(error) ==
    IF ~ShouldRetryFlag(shouldRetry, attempt) \/ RetriesExhausted(attempt)
    THEN /\ retryPc' = "rejected"
         /\ retryResult' = error
         /\ UNCHANGED <<previousAttempts, onRetryCalls>>
    ELSE /\ retryPc' = "waiting"
         /\ onRetryCalls' = onRetryCalls + 1
         /\ previousAttempts' = Append(previousAttempts, <<attempt, error>>)
         /\ UNCHANGED retryResult

\* the function createRetry returned is called: retrier(0, args)
retryCall ==
    /\ UNCHANGED notRetry
    /\ retryPc = "idle"
    /\ retryPc' = "racing"
    /\ fnCalls' = fnCalls + 1
    /\ fnRunning' = fnRunning + 1
    /\ UNCHANGED <<retries, shouldRetry, failFirst, attempt,
                   previousAttempts, retryResult, onRetryCalls, timedOut>>

\* the current invocation of fn settles before the maxTimeout timer fires
fnSettles ==
    /\ UNCHANGED notRetry
    /\ retryPc = "racing"
    /\ fnRunning' = fnRunning - 1
    /\ IF FnOutcome(fnCalls) = "value"
       THEN /\ retryPc' = "resolved"
            /\ retryResult' = "value"
            /\ UNCHANGED <<previousAttempts, onRetryCalls>>
       ELSE Caught("error")
    /\ UNCHANGED <<retries, shouldRetry, failFirst, attempt, fnCalls,
                   timedOut>>

\* the maxTimeout timer fires before the current invocation has settled
raceTimeout ==
    /\ UNCHANGED notRetry
    /\ retryPc = "racing"
    /\ timedOut' = TRUE
    /\ Caught("timeout")
    /\ UNCHANGED <<retries, shouldRetry, failFirst, attempt, fnCalls,
                   fnRunning>>

\* the retryTimeout timer fires: retrier(attempt + 1, args, [...])
retryTimer ==
    /\ UNCHANGED notRetry
    /\ retryPc = "waiting"
    /\ retryPc' = "racing"
    /\ attempt' = attempt + 1
    /\ fnCalls' = fnCalls + 1
    /\ fnRunning' = fnRunning + 1
    /\ UNCHANGED <<retries, shouldRetry, failFirst, previousAttempts,
                   retryResult, onRetryCalls, timedOut>>

\* an invocation that lost its race settles; nobody observes the outcome
lateSettle ==
    /\ UNCHANGED notRetry
    /\ fnRunning > (IF retryPc = "racing" THEN 1 ELSE 0)
    /\ fnRunning' = fnRunning - 1
    /\ UNCHANGED <<retries, shouldRetry, failFirst, retryPc, attempt,
                   previousAttempts, fnCalls, retryResult, onRetryCalls,
                   timedOut>>

createRetry(r, policy, k) ==
    /\ retries = r
    /\ shouldRetry = policy
    /\ failFirst = k
    /\ retryPc = "idle"
    /\ attempt = 0
    /\ previousAttempts = <<>>
    /\ fnCalls = 0
    /\ fnRunning = 0
    /\ retryResult = "none"
    /\ onRetryCalls = 0
    /\ timedOut = FALSE

RetryInit ==
    /\ \E r \in 0..MaxRetries, policy \in RetryPolicies,
          k \in 0..(MaxRetries + 1) : createRetry(r, policy, k)
    /\ createProviderPool /\ LimiterParked /\ ToolParked /\ StreamParked
    /\ GenerateParked /\ ExecuteParked /\ MergeParked /\ UsageParked
    /\ RegistryParked /\ ChatParked /\ DeliveryParked

RetryNext ==
    \/ retryCall
    \/ fnSettles
    \/ raceTimeout
    \/ retryTimer
    \/ lateSettle

RetrySpec == RetryInit /\ [][RetryNext]_vars

\* the same wrapper with its two timers bound to fire: the maxTimeout timer
\* of the race and the retryTimeout timer before the next attempt are
\* setTimeout callbacks, which the event loop runs once they are due
RetryLiveSpec ==
    RetryInit /\ [][RetryNext]_vars
        /\ WF_vars(raceTimeout) /\ WF_vars(retryTimer)

----------------------------------------------------------------------------
(* Tool-call engine: parseToolCall / doParseToolCall / executeTools.       *)
(* A tool is its name, its returnDirect flag, whether its schema accepts   *)
(* the empty object, and whether call() fulfils or throws.  Argument texts *)
(* are the strings below; JSON values are "{}" and "{x}".                  *)
ToolA == [name |-> "a", returnDirect |-> FALSE, acceptsEmpty |-> TRUE,
          call |-> "ok"]
ToolD == [name |-> "d", returnDirect |-> TRUE, acceptsEmpty |-> FALSE,
          call |-> "ok"]
ToolE == [name |-> "e", returnDirect |-> FALSE, acceptsEmpty |-> TRUE,
          call |-> "throws"]
ToolR == [name |-> "r", returnDirect |-> FALSE, acceptsEmpty |-> TRUE,
          call |-> "rejects"]

ToolLists == { <<>>, <<ToolA>>, <<ToolA, ToolD>>, <<ToolD, ToolE, ToolA>> }

ToolsArguments ==
    { [defined |-> TRUE, list |-> l] : l \in ToolLists }
        \cup { [defined |-> FALSE, list |-> <<>>] }

ToolNames == {"a", "d", "e", "zzz"}

ArgumentTexts == {"", "  ", "{}", "{\"x\":1}", "{\"x\":"}

ToolCalls ==
    [toolId : {"id"}, toolName : ToolNames, arguments : ArgumentTexts]

\* String.prototype.trim on the argument texts
Trim(text) == IF text \in {"", "  "} THEN "" ELSE text

\* JSON.parse on the argument texts
JSONParse(text) ==
    IF text = "{}" THEN [ok |-> TRUE, value |-> "{}"]
    ELSE IF text = "{\"x\":1}" THEN [ok |-> TRUE, value |-> "{x}"]
    ELSE [ok |-> FALSE, value |-> "SyntaxError"]

\* tool.schema.safeParse(value): a schema that does not accept the empty
\* object requires the key x
SchemaSafeParse(tool, value) ==
    IF value = "{}" /\ ~tool.acceptsEmpty
    THEN [success |-> FALSE, error |-> "ZodError"]
    ELSE [success |-> TRUE,
          data |-> IF tool.acceptsEmpty THEN "{}" ELSE value]

safeParseJSON(text, tool) ==
    LET j == JSONParse(text)
    IN IF ~j.ok THEN [success |-> FALSE, error |-> j.value]
       ELSE SchemaSafeParse(tool, j.value)

\* tools.find((tool) => tool.name === toolName): position, 0 if none
FindTool(list, toolName) ==
    IF \E i \in 1..Len(list) : list[i].name = toolName
    THEN CHOOSE i \in 1..Len(list) :
            /\ list[i].name = toolName
            /\ \A j \in 1..(i-1) : list[j].name # toolName
    ELSE 0

Returned(part) == [kind |-> "return", part |-> part]

Thrown(message) == [kind |-> "throw", message |-> message]

doParseToolCall(call, list) ==
    LET toolName == call.toolName
        i == FindTool(list, toolName)
    IN IF i = 0
       THEN Returned([type |-> "tool-call", toolCallId |-> call.toolId,
                      toolName |-> "_exception",
                      args |-> <<"error", "does not exist", toolName>>])
       ELSE LET parseResult ==
                    IF Trim(call.arguments) = ""
                    THEN SchemaSafeParse(list[i], "{}")
                    ELSE safeParseJSON(call.arguments, list[i])
            IN IF ~parseResult.success
               THEN Returned([type |-> "tool-call",
                              toolCallId |-> call.toolId,
                              toolName |-> "_exception",
                              args |-> <<"error", "invalid arguments",
                                         toolName>>])
               ELSE Returned([type |-> "tool-call",
                              toolCallId |-> call.toolId,
                              toolName |-> toolName,
                              args |-> parseResult.data])

\* same as parseToolCall but with the `tools == null` test left out
parseToolCallNoNullTest(call, t) == doParseToolCall(call, t.list)

parseToolCall(call, t) ==
    IF ~t.defined
    THEN Thrown(<<"No tools provided for", call.toolName>>)
    ELSE doParseToolCall(call, t.list)

\* one parseToolCall({toolCall, tools}) call
ParseToolCall ==
    /\ UNCHANGED notTool
    /\ parsed.kind = "none"
    /\ parsed' = parseToolCall(toolCall, tools)
    /\ UNCHANGED <<toolCall, tools>>

ToolInit ==
    /\ toolCall \in ToolCalls
    /\ tools \in ToolsArguments
    /\ parsed = [kind |-> "none"]
    /\ createProviderPool /\ LimiterParked /\ RetryParked /\ StreamParked
    /\ GenerateParked /\ ExecuteParked /\ MergeParked /\ UsageParked
    /\ RegistryParked /\ ChatParked /\ DeliveryParked

ToolNext == ParseToolCall

ToolSpec == ToolInit /\ [][ToolNext]_vars

----------------------------------------------------------------------------
(* streamText (generate/stream-text.ts, the revision whose producer loop   *)
(* runs the tools itself): the producer processStream, the parts it        *)
(* writes to baseStream, the nine DelayedPromises, and one consumer of     *)
(* fullStream.  Texts are sequences of deltas.  writer.write is never      *)
(* awaited, so the consumer's reads do not influence the producer before   *)
(* writer.close(); the single reads are not followed, only how the         *)
(* consumer ends.                                                          *)

\* LanguageModelStreamResponseChunk values the model may stream
UsageOne == [defined |-> TRUE, promptTokens |-> 1, cachedTokens |-> UNDEF,
             completionTokens |-> 1, totalTokens |-> 2]

StreamChunks ==
    { [type |-> "text-delta", info |-> "t"],
      [type |-> "reasoning", info |-> "r"],
      [type |-> "tool-call", info |-> "a"],
      [type |-> "tool-call", info |-> "d"],
      [type |-> "tool-call", info |-> "zzz"],
      [type |-> "source", info |-> "s"],
      [type |-> "finish", info |-> "usage", finishReason |-> "stop"],
      [type |-> "finish", info |-> "no usage", finishReason |-> "length"],
      [type |-> "error", info |-> "model-error"] }

StreamToolsArguments ==
    { [defined |-> FALSE, list |-> <<>>],
      [defined |-> TRUE, list |-> <<ToolA, ToolD>>] }

MaxStepsArguments == {1, DefaultMaxSteps}

\* DelayedPromise.resolve: the promise's own resolve function, which has
\* no effect on a settled promise
DelayedResolve(p, value) ==
    IF p.status = "pending"
    THEN [status |-> "fulfilled", settles |-> p.settles + 1, value |-> value]
    ELSE p

\* DelayedPromise.reject
DelayedReject(p, reason) ==
    IF p.status = "pending"
    THEN [status |-> "rejected", settles |-> p.settles + 1, value |-> reason]
    ELSE p

\* value ?? fallback
Nullish(value, fallback) == IF value = UNDEF THEN fallback ELSE value

\* addLanguageModelUsage computing totalTokens from the two other sums
addLanguageModelUsageRecomputed(usage1, usage2) ==
    [defined |-> TRUE,
     promptTokens |-> usage1.promptTokens + usage2.promptTokens,
     cachedTokens |-> Nullish(usage1.cachedTokens, 0)
                        + Nullish(usage2.cachedTokens, 0),
     completionTokens |-> usage1.completionTokens + usage2.completionTokens,
     totalTokens |-> usage1.promptTokens + usage2.promptTokens
                        + usage1.completionTokens + usage2.completionTokens]

addLanguageModelUsage(usage1, usage2) ==
    [defined |-> TRUE,
     promptTokens |-> usage1.promptTokens + usage2.promptTokens,
     cachedTokens |-> Nullish(usage1.cachedTokens, 0)
                        + Nullish(usage2.cachedTokens, 0),
     completionTokens |-> usage1.completionTokens + usage2.completionTokens,
     totalTokens |-> usage1.totalTokens + usage2.totalTokens]

\* executeExcetionTool naming its result `_exception` whatever it is given
executeExcetionToolAsSentinel(toolCallId, toolName, args) ==
    [type |-> "tool-result", toolCallId |-> toolCallId,
     toolName |-> "_exception", args |-> args, result |-> args]

\* executeExcetionTool
executeExcetionTool(toolCallId, toolName, args) ==
    [type |-> "tool-result", toolCallId |-> toolCallId,
     toolName |-> toolName, args |-> args, result |-> args]

\* one element of executeTools' toolCalls.map(...); "TypeError" when
\* tools.find(...) is undefined and tool.returnDirect is read
ExecuteOne(part, list) ==
    IF part.toolName = "_exception"
    THEN [threw |-> FALSE, returnDirect |-> FALSE,
          result |-> executeExcetionTool(part.toolCallId, part.toolName,
                                         part.args)]
    ELSE LET i == FindTool(list, part.toolName)
         IN IF i = 0
            THEN [threw |-> TRUE, returnDirect |-> FALSE,
                  result |-> "TypeError"]
            ELSE IF list[i].call # "ok"
            THEN [threw |-> FALSE, returnDirect |-> list[i].returnDirect,
                  result |-> executeExcetionTool(part.toolCallId,
                                part.toolName,
                                <<"error", "failed to execute",
                                  part.toolName>>)]
            ELSE [threw |-> FALSE, returnDirect |-> list[i].returnDirect,
                  result |-> [type |-> "tool-result",
                              toolCallId |-> part.toolCallId,
                              toolName |-> part.toolName,
                              args |-> part.args, result |-> "ok"]]

\* executeTools({toolCalls, tools}): [results, returnDirectly], or a
\* rejection
executeTools(toolCalls, list) ==
    LET each == [i \in 1..Len(toolCalls) |-> ExecuteOne(toolCalls[i], list)]
    IN [threw |-> \E i \in 1..Len(toolCalls) : each[i].threw,
        results |-> [i \in 1..Len(toolCalls) |-> each[i].result],
        returnDirectly |-> \E i \in 1..Len(toolCalls) : each[i].returnDirect]

\* the part type the trailing block of handleStreamPart derives
CurrentPartType(value) ==
    IF value.type \in {"tool-result", "tool-call"} THEN "tool-call"
    ELSE IF value.type = "text-delta" THEN "text"
    ELSE IF value.type = "reasoning" THEN "reasoning"
    ELSE IF value.type = "source" THEN "source"
    ELSE ""

\* the switch of handleStreamPart for the parts that reach it: the chunks
\* of the model and the producer's own step-start.  out are the parts
\* handed to writer.write, threw tells whether the case throws.
HandleSwitch(value, st) ==
    IF value.type = "text-delta"
    THEN [state |-> [st EXCEPT !.fullText = Append(@, value.info),
                               !.stepText = Append(@, value.info),
                               !.currentStepState =
                                    IF @ = "initial" THEN "continue" ELSE @],
          out |-> <<value>>, threw |-> FALSE]
    ELSE IF value.type = "reasoning"
    THEN [state |-> [st EXCEPT !.reasoningText =
                        [defined |-> TRUE, text |-> Append(@.text, value.info)]],
          out |-> <<value>>, threw |-> FALSE]
    ELSE IF value.type = "source"
    THEN [state |-> [st EXCEPT !.sources = Append(@, value.info),
                               !.stepSources = Append(@, value.info)],
          out |-> <<value>>, threw |-> FALSE]
    ELSE IF value.type = "tool-call"
    THEN IF ~streamTools.defined
         THEN [state |-> st, out |-> <<>>, threw |-> FALSE]
         ELSE [state |-> [st EXCEPT
                    !.toolCalls = Append(@, [type |-> "tool-call",
                                             toolCallId |-> "id",
                                             toolName |-> value.info,
                                             args |-> "{}"]),
                    !.currentStepState = "tool-result"],
               out |-> <<value>>, threw |-> FALSE]
    ELSE IF value.type = "step-start"
    THEN [state |-> [st EXCEPT !.currentStep = @ + 1,
                               !.stepText = <<>>,
                               !.stepSources = <<>>,
                               !.toolCalls = <<>>,
                               !.toolResults = <<>>,
                               !.currentStepState = "initial"],
          out |-> <<value>>, threw |-> FALSE]
    ELSE IF value.type = "finish"
    THEN [state |-> [st EXCEPT
                !.finishReason = value.finishReason,
                !.usage = IF value.info = "usage"
                          THEN IF @.defined
                               THEN addLanguageModelUsage(@, UsageOne)
                               ELSE UsageOne
                          ELSE @,
                !.currentStepState = "done"],
          out |-> <<value>>, threw |-> FALSE]
    ELSE IF value.type = "error"
    THEN [state |-> st, out |-> <<>>, threw |-> TRUE]
    ELSE [state |-> st, out |-> <<>>, threw |-> FALSE]

\* handleStreamPart(value) applied to state st and lastPartType lpt
handleStreamPart(value, st, lpt) ==
    LET sw == HandleSwitch(value, st)
        currentPartType == CurrentPartType(value)
    IN IF sw.threw
       THEN [state |-> sw.state, lastPartType |-> lpt, out |-> sw.out,
             threw |-> TRUE]
       ELSE IF currentPartType # lpt /\ currentPartType # ""
       THEN [state |-> [sw.state EXCEPT
                            !.metadata = Append(@, currentPartType)],
             lastPartType |-> currentPartType,
             out |-> Append(sw.out, [type |-> "response-metadata",
                                     info |-> currentPartType]),
             threw |-> FALSE]
       ELSE [state |-> sw.state, lastPartType |-> lpt, out |-> sw.out,
             threw |-> FALSE]

\* writer.write(part) for each part of out
Write(out) == written \o out

PromiseValue(n, st) ==
    IF n = "text" THEN st.fullText
    ELSE IF n = "reasoning" THEN st.reasoningText
    ELSE IF n = "sources" THEN st.sources
    ELSE IF n = "finishReason"
    THEN (IF st.finishReason = "undefined" THEN "stop" ELSE st.finishReason)
    ELSE IF n = "usage" THEN [st.usage EXCEPT !.defined = TRUE]
    ELSE IF n = "toolCalls" THEN st.toolCalls
    ELSE IF n = "toolResults" THEN st.toolResults
    ELSE IF n = "steps" THEN st.steps
    ELSE st.metadata

\* processStream, lines 489-503
ResolveAll(st) ==
    [n \in PromiseNames |-> DelayedResolve(promises[n], PromiseValue(n, st))]

\* the catch block with the rejection of the metadata promise left out
RejectAllButMetadata(error) ==
    [n \in PromiseNames |->
        IF n = "metadata" THEN promises[n]
        ELSE DelayedReject(promises[n], error)]

\* processStream, lines 508-516
RejectAll(error) ==
    [n \in PromiseNames |-> DelayedReject(promises[n], error)]

\* formatMessages({prompt}) of streamText: the caller's history
formattedPrompt == <<[role |-> "user", content |-> "prompt"]>>

\* the prompt argument of model.doStream
doStreamPrompt == formattedPrompt \o responseMessages

\* processStream after its loops, lines 484-505: w is what was written
Finish(st, lpt, w) ==
    LET fin == IF st.currentStep >= maxSteps
               THEN [st EXCEPT !.finishReason = "other",
                               !.currentStepState = "done"]
               ELSE st
    IN /\ state' = fin
       /\ lastPartType' = lpt
       /\ written' = w
       /\ promises' = ResolveAll(fin)
       /\ pipe' = IF pipe = "open" THEN "closing" ELSE pipe
       /\ pc' = "closing"
       /\ UNCHANGED <<rounds, prompts>>

\* the catch block of processStream and the .catch of its caller
Fail(error, st, lpt, w) ==
    /\ state' = st
    /\ lastPartType' = lpt
    /\ written' = w
    /\ promises' = RejectAll(error)
    /\ pipe' = IF pipe \in {"open", "closing"} THEN "errored" ELSE pipe
    /\ pc' = "failed"
    /\ UNCHANGED <<rounds, prompts>>

\* the outer loop test without the test of the signal
WhileTestIgnoringAbort(st, lpt, w) ==
    IF st.currentStepState # "done"
    THEN /\ state' = [st EXCEPT !.currentStepState = "done"]
         /\ lastPartType' = lpt
         /\ written' = w
         /\ rounds' = rounds + 1
         /\ prompts' = Append(prompts, doStreamPrompt)
         /\ pc' = "doStream"
         /\ UNCHANGED <<promises, pipe>>
    ELSE Finish(st, lpt, w)

\* the test of the outer while loop and, when it passes, the loop body up
\* to `await model.doStream(...)`
WhileTest(st, lpt, w) ==
    IF st.currentStepState # "done" /\ ~aborted
    THEN /\ state' = [st EXCEPT !.currentStepState = "done"]
         /\ lastPartType' = lpt
         /\ written' = w
         /\ rounds' = rounds + 1
         /\ prompts' = Append(prompts, doStreamPrompt)
         /\ pc' = "doStream"
         /\ UNCHANGED <<promises, pipe>>
    ELSE Finish(st, lpt, w)

\* after the inner loop: `if (state.currentStepState === 'done') break`
AfterInnerLoop(st, lpt, w) ==
    IF st.currentStepState = "done"
    THEN Finish(st, lpt, w)
    ELSE WhileTest(st, lpt, w)

\* the test of the inner while loop before `await reader.read()`
InnerWhileTest(st, lpt, w) ==
    IF ~aborted
    THEN /\ state' = st
         /\ lastPartType' = lpt
         /\ written' = w
         /\ pc' = "read"
         /\ UNCHANGED <<promises, pipe, rounds, prompts>>
    ELSE AfterInnerLoop(st, lpt, w)

streamFrame == <<maxSteps, streamTools, aborted, consumer,
                responseMessages, unread>>

\* streamText calls processStream()
processStream ==
    /\ UNCHANGED notStream
    /\ pc = "start"
    /\ WhileTest(state, lastPartType, written)
    /\ UNCHANGED <<streamFrame, readLog>>

\* model.doStream resolves; step-start is handled.  The streams of the
\* first MaxRounds calls are followed, and that of a later call when the
\* signal is set, as the producer then ends without another call.
doStreamResolves ==
    /\ UNCHANGED notStream
    /\ pc = "doStream"
    /\ rounds <= MaxRounds \/ aborted
    /\ LET h == handleStreamPart([type |-> "step-start", info |-> ""],
                                 state, lastPartType)
       IN InnerWhileTest(h.state, h.lastPartType, Write(h.out))
    /\ UNCHANGED <<streamFrame, readLog>>

doStreamRejects ==
    /\ UNCHANGED notStream
    /\ pc = "doStream"
    /\ Fail("doStream-error", state, lastPartType, written)
    /\ UNCHANGED <<streamFrame, readLog>>

\* reader.read() yields a chunk of the model
readChunk(value) ==
    /\ UNCHANGED notStream
    /\ pc = "read"
    /\ Len(readLog) < MaxChunks
    /\ readLog' = Append(readLog, <<rounds, value.type, value.info>>)
    /\ LET h == handleStreamPart(value, state, lastPartType)
       IN IF h.threw
          THEN Fail(value.info, h.state, h.lastPartType, Write(h.out))
          ELSE IF Len(h.state.toolCalls) > 0
          THEN /\ state' = h.state
               /\ lastPartType' = h.lastPartType
               /\ written' = Write(h.out)
               /\ pc' = "tools"
               /\ UNCHANGED <<promises, pipe, rounds, prompts>>
          ELSE InnerWhileTest(h.state, h.lastPartType, Write(h.out))
    /\ UNCHANGED streamFrame

\* reader.read() reports the end of the model's stream
readDone ==
    /\ UNCHANGED notStream
    /\ pc = "read"
    /\ AfterInnerLoop(state, lastPartType, written)
    /\ UNCHANGED <<streamFrame, readLog>>

readRejects ==
    /\ UNCHANGED notStream
    /\ pc = "read"
    /\ Fail("read-error", state, lastPartType, written)
    /\ UNCHANGED <<streamFrame, readLog>>

\* what a model stream may still hold after a tool-call chunk: nothing, or
\* the finish chunk with the usage of the round
UnreadTails(round) == { <<>>, <<<<round, "finish", "usage">>>> }

\* `await executeTools(...)` of the inner loop settles; the `break` of line
\* 474 leaves the rest of the round's stream unread
toolsSettle ==
    /\ UNCHANGED notStream
    /\ pc = "tools"
    /\ LET r == executeTools(state.toolCalls, streamTools.list)
       IN IF r.threw
          THEN /\ Fail("TypeError", state, lastPartType, written)
               /\ UNCHANGED unread
          ELSE /\ AfterInnerLoop(
                      [state EXCEPT !.toolResults = r.results,
                                    !.currentStep = @ + 1,
                                    !.currentStepState =
                                        IF r.returnDirectly THEN "done"
                                        ELSE "continue"],
                      lastPartType, written)
               /\ \E rest \in UnreadTails(rounds) : unread' = unread \o rest
    /\ UNCHANGED <<maxSteps, streamTools, aborted, consumer,
                   responseMessages, readLog>>

\* `await writer.close()` resolves: every queued part has been taken
closeResolves ==
    /\ UNCHANGED notStream
    /\ pc = "closing" /\ pipe = "closing"
    /\ pipe' = "closed"
    /\ pc' = "done"
    /\ UNCHANGED <<state, lastPartType, written, promises, rounds,
                   prompts, streamFrame, readLog>>

\* `await writer.close()` rejects: the stream is already errored
closeRejects ==
    /\ UNCHANGED notStream
    /\ pc = "closing" /\ pipe = "cancelled"
    /\ Fail("close-error", state, lastPartType, written)
    /\ UNCHANGED <<streamFrame, readLog>>

\* the caller aborts the AbortSignal
signalAbort ==
    /\ UNCHANGED notStream
    /\ ~aborted
    /\ aborted' = TRUE
    /\ UNCHANGED <<state, lastPartType, written, promises, pipe, pc,
                   rounds, readLog, maxSteps, streamTools, consumer,
                   responseMessages, prompts, unread>>

consumerFrame == <<state, lastPartType, written, promises, pc, rounds,
                   readLog, maxSteps, streamTools, aborted,
                   responseMessages, prompts, unread>>

\* the consumer's read reports done
consumerEnd ==
    /\ UNCHANGED notStream
    /\ consumer = "reading" /\ pipe = "closed"
    /\ consumer' = "done"
    /\ UNCHANGED <<consumerFrame, pipe>>

\* the consumer's read rejects with the reason of writer.abort
consumerError ==
    /\ UNCHANGED notStream
    /\ consumer = "reading" /\ pipe = "errored"
    /\ consumer' = "failed"
    /\ UNCHANGED <<consumerFrame, pipe>>

\* the consumer cancels fullStream
consumerCancel ==
    /\ UNCHANGED notStream
    /\ consumer = "reading" /\ pipe \in {"open", "closing"}
    /\ consumer' = "cancelled"
    /\ pipe' = "cancelled"
    /\ UNCHANGED consumerFrame

streamText(steps, t) ==
    /\ maxSteps = steps
    /\ streamTools = t
    /\ state = createInitialState
    /\ lastPartType = ""
    /\ promises = [n \in PromiseNames |-> NewDelayedPromise]
    /\ written = <<>>
    /\ pipe = "open"
    /\ consumer = "reading"
    /\ pc = "start"
    /\ aborted = FALSE
    /\ rounds = 0
    /\ readLog = <<>>
    /\ responseMessages = <<>>
    /\ prompts = <<>>
    /\ unread = <<>>

StreamInit ==
    /\ \E steps \in MaxStepsArguments, t \in StreamToolsArguments :
            streamText(steps, t)
    /\ createProviderPool /\ LimiterParked /\ RetryParked /\ ToolParked
    /\ GenerateParked /\ ExecuteParked /\ MergeParked /\ UsageParked
    /\ RegistryParked /\ ChatParked /\ DeliveryParked

StreamNext ==
    \/ processStream
    \/ doStreamResolves
    \/ doStreamRejects
    \/ \E value \in StreamChunks : readChunk(value)
    \/ readDone
    \/ readRejects
    \/ toolsSettle
    \/ closeResolves
    \/ closeRejects
    \/ signalAbort
    \/ consumerEnd
    \/ consumerError
    \/ consumerCancel

StreamSpec == StreamInit /\ [][StreamNext]_vars

\* The chunks that decide how a call settles: what the chunk is matters to
\* the promises only through the tools it starts, the finish it reports
\* and the error it carries.
SettleChunks ==
    { [type |-> "text-delta", info |-> "t"],
      [type |-> "tool-call", info |-> "a"],
      [type |-> "tool-call", info |-> "d"],
      [type |-> "tool-call", info |-> "zzz"],
      [type |-> "finish", info |-> "usage", finishReason |-> "stop"],
      [type |-> "error", info |-> "model-error"] }

StreamSettleNext ==
    \/ processStream
    \/ doStreamResolves
    \/ doStreamRejects
    \/ \E value \in SettleChunks : readChunk(value)
    \/ readDone
    \/ readRejects
    \/ toolsSettle
    \/ closeResolves
    \/ closeRejects
    \/ signalAbort
    \/ consumerEnd
    \/ consumerError
    \/ consumerCancel

StreamSettleSpec == StreamInit /\ [][StreamSettleNext]_vars

\* The chunks of the models whose parts are followed to the consumer: text,
\* a tool call, the finish chunk and the error chunk.
AbortChunks ==
    { [type |-> "text-delta", info |-> "t"],
      [type |-> "tool-call", info |-> "a"],
      [type |-> "finish", info |-> "usage", finishReason |-> "stop"],
      [type |-> "error", info |-> "model-error"] }

----------------------------------------------------------------------------
(* streamText with the reads of one consumer of fullStream followed.  The  *)
(* parts sit in baseStream in the order they were written: writer.write is *)
(* not awaited and baseStream has the default queuing strategies, so a     *)
(* part leaves it only when the consumer side asks for one.  The writer's  *)
(* abort(error) discards what has not left by then, and writer.close()     *)
(* resolves when all has left.                                             *)

\* a part leaves baseStream for the consumer
consumerRead ==
    /\ consumer = "reading" /\ pipe \in {"open", "closing"}
    /\ taken < Len(written)
    /\ taken' = taken + 1
    /\ UNCHANGED <<poolVars, limiterVars, retryVars, toolVars, streamVars,
                   generateVars, executeVars, mergeVars, usageVars,
                   registryVars, chatVars>>

\* `await writer.close()` resolves once the consumer has taken every part
closeResolvesDrained ==
    /\ taken = Len(written)
    /\ closeResolves

DeliveryNext ==
    \/ processStream
    \/ doStreamResolves
    \/ doStreamRejects
    \/ \E value \in AbortChunks : readChunk(value)
    \/ readDone
    \/ readRejects
    \/ toolsSettle
    \/ closeResolvesDrained
    \/ closeRejects
    \/ signalAbort
    \/ consumerRead
    \/ consumerEnd
    \/ consumerError
    \/ consumerCancel

DeliverySpec == StreamInit /\ [][DeliveryNext]_vars

\* The chunks of the models the abort signal is followed with: what a chunk
\* is matters to how the call ends only through the await it starts and
\* the state of the step it leaves.  A tool call starts executeTools and
\* leaves the step to be continued, the finish chunk ends the loop, and a
\* failure of the model is a rejected read.
LiveChunks ==
    { [type |-> "tool-call", info |-> "a"],
      [type |-> "finish", info |-> "usage", finishReason |-> "stop"] }

\* streamText calls processStream() before it returns, so the producer
\* always starts, and writer.close() on a pipe the consumer has cancelled
\* rejects by itself; whether any other await of the producer settles is
\* up to the model, the tools and the consumer, and is left open
StreamLiveNext ==
    \/ processStream
    \/ doStreamResolves
    \/ doStreamRejects
    \/ \E value \in LiveChunks : readChunk(value)
    \/ readDone
    \/ readRejects
    \/ toolsSettle
    \/ closeResolvesDrained
    \/ closeRejects
    \/ signalAbort
    \/ consumerRead
    \/ consumerEnd
    \/ consumerError
    \/ consumerCancel

StreamLiveSpec ==
    /\ StreamInit /\ [][StreamLiveNext]_vars
    /\ WF_vars(processStream)
    /\ WF_vars(closeRejects)

----------------------------------------------------------------------------
(* generatateText (generate/generate-text.ts).  The answer of the model to *)
(* its n-th doGenerate call carries the text n, a finishReason and the     *)
(* names of the tools it asks for; usage and response metadata are summed  *)
(* and collected without any effect on the loop and are left out.          *)
MaxStepsArgument == 3   \* largest explicit `maxSteps` argument

GenMaxStepsArguments == (0..MaxStepsArgument) \cup {UNDEF}

GenToolsArguments ==
    { [defined |-> FALSE, list |-> <<>>],
      [defined |-> TRUE, list |-> <<ToolA, ToolD>>],
      [defined |-> TRUE, list |-> <<ToolD, ToolE, ToolA>>] }

GenResponses ==
    [finishReason : {"stop", "length"},
     toolCalls : { <<>>, <<"a">>, <<"d">>, <<"e", "zzz">> }]

\* the LanguageModelToolCall objects of a response
ResponseToolCalls(names) ==
    [i \in 1..Len(names) |->
        [toolId |-> i, toolName |-> names[i], arguments |-> "{\"x\":1}"]]

\* toResponseMessages({text, toolCalls, toolResults})
toResponseMessages(t, toolCalls, toolResults) ==
    <<[role |-> "assistant",
       content |-> <<[type |-> "text", text |-> t]>> \o toolCalls]>>
    \o (IF Len(toolResults) > 0
        THEN <<[role |-> "tool", content |-> toolResults]>>
        ELSE <<>>)

\* the choice of nextStepType without the test of the tool calls
NextStepTypeLengthOnly(count, finishReason, toolCalls, toolResults) ==
    IF count < genMaxSteps
    THEN IF finishReason = "length"
         THEN "continue"
         ELSE IF Len(toolCalls) > 0 /\ Len(toolResults) = Len(toolCalls)
         THEN "tool-result"
         ELSE "done"
    ELSE "done"

\* `++stepCount < maxSteps` and the choice of nextStepType, lines 137-153;
\* count is stepCount after the increment
NextStepType(count, finishReason, toolCalls, toolResults) ==
    IF count < genMaxSteps
    THEN IF finishReason = "length" /\ Len(toolCalls) = 0
         THEN "continue"
         ELSE IF Len(toolCalls) > 0 /\ Len(toolResults) = Len(toolCalls)
         THEN "tool-result"
         ELSE "done"
    ELSE "done"

generateFrame == <<genMaxSteps, genTools>>

GenThrow(error) ==
    /\ genPc' = "threw"
    /\ genOutcome' = [kind |-> "throw", error |-> error]

\* the head of the do-while body up to `await model.doGenerate(...)`
CallDoGenerate(enteredAs) ==
    /\ genPc' = "doGenerate"
    /\ doGenerateCalls' = doGenerateCalls + 1
    /\ entered' = Append(entered, enteredAs)
    /\ UNCHANGED genOutcome

\* generatateText is called: the maxSteps test, the defaults and the first
\* pass through the head of the loop
generatateText ==
    /\ UNCHANGED notGenerate
    /\ genPc = "start"
    /\ IF genMaxSteps # UNDEF /\ genMaxSteps < 1
       THEN /\ GenThrow("maxSteps must be greater than 0")
            /\ UNCHANGED <<genMaxSteps, doGenerateCalls, entered>>
       ELSE /\ genMaxSteps' = IF genMaxSteps = UNDEF THEN DefaultMaxSteps
                              ELSE genMaxSteps
            /\ CallDoGenerate(stepType)
    /\ UNCHANGED <<genTools, stepCount, stepType, returnDirectly,
                   currentToolCalls, currentToolResults, genText,
                   genResponseMessages, stepResults, onErrorCalls,
                   currentModelResponse>>

\* a catch block that reports the error and calls the model again
doGenerateRejectsRetried ==
    /\ UNCHANGED notGenerate
    /\ genPc = "doGenerate"
    /\ onErrorCalls' = onErrorCalls + 1
    /\ CallDoGenerate(stepType)
    /\ UNCHANGED <<generateFrame, stepCount, stepType, returnDirectly,
                   currentToolCalls, currentToolResults, genText,
                   genResponseMessages, stepResults, currentModelResponse>>

\* model.doGenerate rejects: the catch block of lines 92-98
doGenerateRejects ==
    /\ UNCHANGED notGenerate
    /\ genPc = "doGenerate"
    /\ onErrorCalls' = onErrorCalls + 1
    /\ GenThrow("doGenerate-error")
    /\ UNCHANGED <<generateFrame, stepCount, stepType, returnDirectly,
                   currentToolCalls, currentToolResults, genText,
                   genResponseMessages, stepResults, doGenerateCalls,
                   entered, currentModelResponse>>

\* the loop body after the tools, lines 127-212, the loop test and either
\* the return or the next call of the model; r is currentModelResponse
AfterTools(r, toolCalls, results, direct) ==
    LET count == stepCount + 1
        nextStepType == NextStepType(count, r.finishReason,
                                     toolCalls, results)
        thisStepType == IF direct THEN "done" ELSE stepType
        originalText == <<doGenerateCalls>>
        t == IF nextStepType = "continue" \/ thisStepType = "continue"
             THEN genText \o originalText
             ELSE originalText
        n == Len(genResponseMessages)
    IN /\ currentToolResults' = results
       /\ returnDirectly' = direct
       /\ stepCount' = count
       /\ genText' = t
       /\ genResponseMessages' =
             IF thisStepType = "continue"
             THEN [genResponseMessages EXCEPT ![n].content =
                       Append(@, [type |-> "text",
                                  text |-> originalText])]
             ELSE genResponseMessages
                  \o toResponseMessages(t, toolCalls, results)
       /\ stepResults' = Append(stepResults,
             [text |-> t, toolCalls |-> toolCalls,
              toolResults |-> results,
              finishReason |-> r.finishReason])
       /\ stepType' = nextStepType
       /\ IF nextStepType # "done"
          THEN CallDoGenerate(nextStepType)
          ELSE /\ genPc' = "returned"
               /\ genOutcome' =
                     [kind |-> "return", text |-> t,
                      toolCalls |-> toolCalls,
                      toolResults |-> results,
                      finishReason |-> r.finishReason]
               /\ UNCHANGED <<doGenerateCalls, entered>>

\* model.doGenerate resolves with response r: the tool calls are parsed
\* and, with tools given, executeTools is called and awaited; without
\* tools nothing is awaited and the body runs on
doGenerateResolves(r) ==
    /\ UNCHANGED notGenerate
    /\ genPc = "doGenerate"
    /\ currentModelResponse' = r
    /\ LET calls == ResponseToolCalls(r.toolCalls)
           each == [i \in 1..Len(calls) |-> parseToolCall(calls[i], genTools)]
       IN IF \E i \in 1..Len(calls) : each[i].kind = "throw"
          THEN \* parseToolCall throws inside the map callback
               /\ GenThrow("No tools provided")
               /\ UNCHANGED <<stepCount, stepType, returnDirectly,
                              currentToolCalls, currentToolResults, genText,
                              genResponseMessages, stepResults,
                              doGenerateCalls, entered>>
          ELSE
          LET toolCalls == [i \in 1..Len(calls) |-> each[i].part]
          IN /\ currentToolCalls' = toolCalls
             /\ IF genTools.defined
                THEN /\ genPc' = "executeTools"
                     /\ UNCHANGED <<stepCount, stepType, returnDirectly,
                                    currentToolResults, genText,
                                    genResponseMessages, stepResults,
                                    doGenerateCalls, entered, genOutcome>>
                ELSE AfterTools(r, toolCalls, <<>>, FALSE)
    /\ UNCHANGED <<generateFrame, onErrorCalls>>

\* the promise of executeTools settles: a rejection leaves generatateText,
\* a value lets the loop body run on
executeToolsSettles ==
    /\ UNCHANGED notGenerate
    /\ genPc = "executeTools"
    /\ LET x == executeTools(currentToolCalls, genTools.list)
       IN IF x.threw
          THEN /\ GenThrow("TypeError")
               /\ UNCHANGED <<stepCount, stepType, returnDirectly,
                              currentToolResults, genText,
                              genResponseMessages, stepResults,
                              doGenerateCalls, entered>>
          ELSE AfterTools(currentModelResponse, currentToolCalls,
                          x.results, x.returnDirectly)
    /\ UNCHANGED <<generateFrame, onErrorCalls, currentToolCalls,
                   currentModelResponse>>

GenerateInit ==
    /\ \E steps \in GenMaxStepsArguments, t \in GenToolsArguments :
          /\ genMaxSteps = steps
          /\ genTools = t
    /\ genPc = "start"
    /\ stepCount = 0
    /\ stepType = "initial"
    /\ returnDirectly = FALSE
    /\ currentToolCalls = <<>>
    /\ currentToolResults = <<>>
    /\ currentModelResponse = [finishReason |-> "undefined", toolCalls |-> <<>>]
    /\ genText = <<>>
    /\ genResponseMessages = <<>>
    /\ stepResults = <<>>
    /\ doGenerateCalls = 0
    /\ onErrorCalls = 0
    /\ genOutcome = [kind |-> "none"]
    /\ entered = <<>>
    /\ createProviderPool /\ LimiterParked /\ RetryParked /\ ToolParked
    /\ StreamParked /\ ExecuteParked /\ MergeParked /\ UsageParked
    /\ RegistryParked /\ ChatParked /\ DeliveryParked

GenerateNext ==
    \/ generatateText
    \/ doGenerateRejects
    \/ \E r \in GenResponses : doGenerateResolves(r)
    \/ executeToolsSettles

GenerateSpec == GenerateInit /\ [][GenerateNext]_vars

----------------------------------------------------------------------------
(* executeTools as it runs.  Calling it runs the map callback of every     *)
(* tool call up to its first await; the promises the tools returned settle *)
(* later, in any order.  A tool whose call is "ok" returns a promise that  *)
(* fulfils, "rejects" one that rejects, "throws" throws before returning.  *)
MaxToolCalls == 2   \* tool calls handed to one executeTools call

ExecToolLists == { <<ToolA, ToolD>>, <<ToolD, ToolE, ToolR, ToolA>> }

ExecToolNames == {"a", "d", "e", "r", "zzz", "_exception"}

\* the ToolCallPart objects of the `toolCalls` argument
ToolCallParts(names) ==
    [i \in 1..Len(names) |->
        [type |-> "tool-call", toolCallId |-> i, toolName |-> names[i],
         args |-> "{x}"]]

ExecToolCallsArguments ==
    { ToolCallParts(names) :
        names \in UNION { [1..n -> ExecToolNames] : n \in 0..MaxToolCalls } }

\* an index of the result array that holds no value yet
NullResult == [type |-> "none"]

\* the test `result != null` of the return statement
NonNull(result) == result # NullResult

\* the result array of Promise.all before any promise has settled
RECURSIVE EmptyArray(_)
EmptyArray(n) ==
    IF n = 0 THEN <<>> ELSE Append(EmptyArray(n - 1), NullResult)

\* toolResults.filter((result) => result != null)
RECURSIVE FilterNonNull(_)
FilterNonNull(s) ==
    IF Len(s) = 0 THEN <<>>
    ELSE (IF NonNull(Head(s)) THEN <<Head(s)>> ELSE <<>>)
         \o FilterNonNull(Tail(s))

\* Promise.all keeping its values in the order the promises settle
SlotByCompletion(i, done) == Len(done) + 1

\* the index at which Promise.all keeps the value of its i-th promise
Slot(i, done) == i

\* the map callback of tool call i has reached its first await or its end
AwaitsToolCall(part, list) ==
    /\ part.toolName # "_exception"
    /\ FindTool(list, part.toolName) # 0
    /\ list[FindTool(list, part.toolName)].call \in {"ok", "rejects"}

\* the promise of map callback i fulfils: Promise.all records its value
Fulfil(e, i, value) ==
    [e EXCEPT !.callStatus[i] = "fulfilled",
              !.values[Slot(i, e.completion)] = value,
              !.completion = Append(@, i)]

\* toolCalls.map(async ...): the callbacks run one after another up to
\* their first await; e collects callStatus, values and completion
RECURSIVE MapCallbacks(_, _)
MapCallbacks(i, e) ==
    IF i > Len(execCalls) THEN e
    ELSE LET x == ExecuteOne(execCalls[i], execTools)
         IN MapCallbacks(i + 1,
                IF x.threw
                THEN [e EXCEPT !.callStatus[i] = "rejected"]
                ELSE IF AwaitsToolCall(execCalls[i], execTools)
                THEN e
                ELSE Fulfil(e, i, x.result))

ExecState ==
    [callStatus |-> callStatus, values |-> values, completion |-> completion]

\* `await Promise.all(...)` and the return statement of executeTools
AwaitAll(e) ==
    IF \E i \in 1..Len(execCalls) : e.callStatus[i] = "rejected"
    THEN /\ execPc' = "rejected"
         /\ execOutcome' = [kind |-> "throw", error |-> "TypeError"]
    ELSE IF \A i \in 1..Len(execCalls) : e.callStatus[i] = "fulfilled"
    THEN /\ execPc' = "resolved"
         /\ execOutcome' =
               [kind |-> "return",
                results |-> FilterNonNull(e.values),
                returnDirectly |-> execReturnDirectly']
    ELSE /\ execPc' = IF execPc = "start" THEN "awaiting" ELSE execPc
         /\ UNCHANGED execOutcome

\* executeTools({toolCalls, tools}) is called
executeToolsCall ==
    /\ UNCHANGED notExecute
    /\ execPc = "start"
    /\ LET n == Len(execCalls)
           e == MapCallbacks(1, [callStatus |-> [i \in 1..n |-> "running"],
                                 values |-> EmptyArray(n),
                                 completion |-> <<>>])
       IN /\ callStatus' = e.callStatus
          /\ values' = e.values
          /\ completion' = e.completion
          /\ execReturnDirectly' =
                \E i \in 1..n : ExecuteOne(execCalls[i], execTools).returnDirect
          /\ AwaitAll(e)
    /\ UNCHANGED <<execTools, execCalls>>

\* the promise tool.call(args) returned for tool call i settles
toolSettles(i) ==
    /\ UNCHANGED notExecute
    /\ execPc \in {"awaiting", "rejected"}
    /\ i \in 1..Len(execCalls)
    /\ callStatus[i] = "running"
    /\ LET e == Fulfil(ExecState, i,
                       ExecuteOne(execCalls[i], execTools).result)
       IN /\ callStatus' = e.callStatus
          /\ values' = e.values
          /\ completion' = e.completion
          /\ UNCHANGED execReturnDirectly
          /\ IF execPc = "rejected"
             THEN UNCHANGED <<execPc, execOutcome>>
             ELSE AwaitAll(e)
    /\ UNCHANGED <<execTools, execCalls>>

ExecuteInit ==
    /\ execTools \in ExecToolLists
    /\ execCalls \in ExecToolCallsArguments
    /\ execPc = "start"
    /\ callStatus = <<>>
    /\ values = <<>>
    /\ execReturnDirectly = FALSE
    /\ completion = <<>>
    /\ execOutcome = [kind |-> "none"]
    /\ createProviderPool /\ LimiterParked /\ RetryParked /\ ToolParked
    /\ StreamParked /\ GenerateParked /\ MergeParked /\ UsageParked
    /\ RegistryParked /\ ChatParked /\ DeliveryParked

ExecuteNext ==
    \/ executeToolsCall
    \/ \E i \in 1..MaxToolCalls : toolSettles(i)

ExecuteSpec == ExecuteInit /\ [][ExecuteNext]_vars

----------------------------------------------------------------------------
(* concatChunks (messages/messages.ts).  A string is the sequence of its   *)
(* characters, so that `+` is \o.  A part is a text part, a tool-call part *)
(* or a tool-result part; the args of a tool call and the result of a tool *)
(* result are objects with the one string-valued key x.  A chunk is its    *)
(* role and its content, a string or an array of parts; name, id and       *)
(* metadata are merged apart from the content and are left out.            *)
MaxChunkList == 2   \* chunks handed to one concatChunks call

Strings == { <<>>, <<"a">>, <<"b", "c">> }

TextPart(s) == [type |-> "text", text |-> s]

ToolCallPart(id, name, x) ==
    [type |-> "tool-call", toolCallId |-> id, toolName |-> name,
     args |-> x]

ToolResultPart(id, name, x) ==
    [type |-> "tool-result", toolCallId |-> id, toolName |-> name,
     result |-> x]

StringContent(s) == [kind |-> "string", text |-> s]

ArrayContent(parts) == [kind |-> "array", parts |-> parts]

ContentValues ==
    { StringContent(s) : s \in Strings }
    \cup
    { ArrayContent(parts) : parts \in
        { <<>>,
          <<TextPart(<<"a">>)>>,
          <<TextPart(<<"b", "c">>)>>,
          <<TextPart(<<"a">>), TextPart(<<"b", "c">>)>>,
          <<ToolCallPart(<<"1">>, <<"f">>, <<"a">>)>>,
          <<TextPart(<<"a">>), ToolCallPart(<<"2">>, <<"g">>, <<"b">>)>>,
          <<ToolResultPart(<<"1">>, <<"f">>, <<"a">>)>>,
          <<ToolResultPart(<<"1", "1">>, <<"f">>, <<"a">>),
            ToolResultPart(<<"1">>, <<"f">>, <<"b">>)>> } }

MessageRoles == {"assistant", "tool"}

ChunkValues == [role : MessageRoles, content : ContentValues]

ChunkLists == UNION { [1..n -> ChunkValues] : n \in 1..MaxChunkList }

\* the parts a chunk contributes to allParts
ContentParts(content) ==
    IF content.kind = "string"
    THEN <<TextPart(content.text)>>
    ELSE content.parts

RECURSIVE AllParts(_)
AllParts(cs) ==
    IF Len(cs) = 0 THEN <<>>
    ELSE ContentParts(Head(cs).content) \o AllParts(Tail(cs))

\* the flag concatToString after the first loop
ConcatToString(cs) ==
    \A i \in 1..Len(cs) : cs[i].content.kind = "string"

canMerge(a, b) ==
    IF a.type # b.type THEN FALSE
    ELSE IF a.type = "text" THEN TRUE
    ELSE IF a.type = "tool-result" THEN a.toolCallId = b.toolCallId
    ELSE TRUE

\* _mergeDicts(a, b) applied to two parts of one type: every string field
\* but `type` is concatenated, the object fields are merged
mergeTwoPartsGeneric(a, b) ==
    IF a.type = "text"
    THEN TextPart(a.text \o b.text)
    ELSE IF a.type = "tool-result"
    THEN ToolResultPart(a.toolCallId \o b.toolCallId,
                        a.toolName \o b.toolName, a.result \o b.result)
    ELSE ToolCallPart(a.toolCallId \o b.toolCallId,
                      a.toolName \o b.toolName, a.args \o b.args)

\* mergeTwoParts with the operands of the text concatenation exchanged
mergeTwoPartsReversed(a, b) ==
    IF a.type = "text"
    THEN [a EXCEPT !.text = b.text \o a.text]
    ELSE IF a.type = "tool-result"
    THEN [a EXCEPT !.result = a.result \o b.result]
    ELSE [a EXCEPT !.args = a.args \o b.args]

mergeTwoParts(a, b) ==
    IF a.type = "text"
    THEN [a EXCEPT !.text = a.text \o b.text]
    ELSE IF a.type = "tool-result"
    THEN [a EXCEPT !.result = a.result \o b.result]
    ELSE [a EXCEPT !.args = a.args \o b.args]

\* the second loop of concatChunks: acc is mergedContent, whose last
\* element is lastPart
RECURSIVE MergeParts(_, _)
MergeParts(acc, parts) ==
    IF Len(parts) = 0 THEN acc
    ELSE LET currentPart == Head(parts)
             n == Len(acc)
         IN IF n > 0 /\ canMerge(acc[n], currentPart)
            THEN MergeParts(
                    SubSeq(acc, 1, n - 1)
                        \o <<mergeTwoParts(acc[n], currentPart)>>,
                    Tail(parts))
            ELSE MergeParts(Append(acc, currentPart), Tail(parts))

\* the content of the chunk concatChunks returns, always collapsing a
\* single text part
CollapseAlways(mergedContent, concatToString) ==
    IF Len(mergedContent) = 1 /\ mergedContent[1].type = "text"
    THEN StringContent(mergedContent[1].text)
    ELSE ArrayContent(mergedContent)

\* the content of the chunk concatChunks returns
Collapse(mergedContent, concatToString) ==
    IF Len(mergedContent) = 1 /\ mergedContent[1].type = "text"
       /\ concatToString
    THEN StringContent(mergedContent[1].text)
    ELSE ArrayContent(mergedContent)

concatChunks(cs) ==
    LET role == cs[1].role
    IN IF \E i \in 1..Len(cs) : cs[i].role # role
       THEN [kind |-> "throw",
             error |-> "Cannot merge messages with different roles"]
       ELSE [kind |-> "return",
             chunk |-> [role |-> role,
                        content |-> Collapse(MergeParts(<<>>, AllParts(cs)),
                                             ConcatToString(cs))]]

\* concatChunks(...chunks) is called
ConcatChunks ==
    /\ UNCHANGED notMerge
    /\ mergePc = "start"
    /\ merged' = concatChunks(chunks)
    /\ mergePc' = "merged"
    /\ UNCHANGED <<chunks, remerged>>

\* concatChunks is called with the chunk the first call returned
ConcatMerged ==
    /\ UNCHANGED notMerge
    /\ mergePc = "merged"
    /\ merged.kind = "return"
    /\ remerged' = concatChunks(<<merged.chunk>>)
    /\ mergePc' = "remerged"
    /\ UNCHANGED <<chunks, merged>>

MergeInit ==
    /\ chunks \in ChunkLists
    /\ merged = [kind |-> "none"]
    /\ remerged = [kind |-> "none"]
    /\ mergePc = "start"
    /\ createProviderPool /\ LimiterParked /\ RetryParked /\ ToolParked
    /\ StreamParked /\ GenerateParked /\ ExecuteParked /\ UsageParked
    /\ RegistryParked /\ ChatParked /\ DeliveryParked

MergeNext ==
    \/ ConcatChunks
    \/ ConcatMerged

MergeSpec == MergeInit /\ [][MergeNext]_vars

----------------------------------------------------------------------------
(* addLanguageModelUsage (language-models/index.ts) on its own.  Token     *)
(* counts are the non-negative integers up to MaxTokens; cachedTokens is   *)
(* optional.                                                               *)
MaxTokens == 1   \* largest token count of an argument record

LanguageModelUsages ==
    [defined : {TRUE}, promptTokens : 0..MaxTokens,
     cachedTokens : {UNDEF, MaxTokens},
     completionTokens : 0..MaxTokens, totalTokens : 0..MaxTokens]

\* addLanguageModelUsage(u1, u2) and addLanguageModelUsage(u2, u1)
AddPair ==
    /\ UNCHANGED notUsage
    /\ Len(usageOut) = 0
    /\ usageOut' = <<addLanguageModelUsage(usageArgs[1], usageArgs[2]),
                     addLanguageModelUsage(usageArgs[2], usageArgs[1])>>
    /\ UNCHANGED usageArgs

\* addLanguageModelUsage(addLanguageModelUsage(u1, u2), u3)
AddLeftFirst ==
    /\ UNCHANGED notUsage
    /\ Len(usageOut) = 2
    /\ usageOut' = Append(usageOut,
                          addLanguageModelUsage(usageOut[1], usageArgs[3]))
    /\ UNCHANGED usageArgs

\* addLanguageModelUsage(u1, addLanguageModelUsage(u2, u3))
AddRightFirst ==
    /\ UNCHANGED notUsage
    /\ Len(usageOut) = 3
    /\ usageOut' = Append(usageOut,
                          addLanguageModelUsage(usageArgs[1],
                              addLanguageModelUsage(usageArgs[2],
                                                    usageArgs[3])))
    /\ UNCHANGED usageArgs

UsageInit ==
    /\ usageArgs \in [1..3 -> LanguageModelUsages]
    /\ usageOut = <<>>
    /\ createProviderPool /\ LimiterParked /\ RetryParked /\ ToolParked
    /\ StreamParked /\ GenerateParked /\ ExecuteParked /\ MergeParked
    /\ RegistryParked /\ ChatParked /\ DeliveryParked

UsageNext ==
    \/ AddPair
    \/ AddLeftFirst
    \/ AddRightFirst

UsageSpec == UsageInit /\ [][UsageNext]_vars

----------------------------------------------------------------------------
(* DefaultProviderRegistry (provider/registry.ts, first revision) and      *)
(* CortexLunaService.models.  A provider's models() returns its hardcoded  *)
(* list and a promise of its latest list; the list of provider p is the    *)
(* one-element sequence <<[provider |-> p, list |-> "hardcoded">>>> or     *)
(* <<[provider |-> p, list |-> "latest">>>>.                               *)
MaxProviders == 2   \* provider ids
MaxRefreshes == 2   \* provider.models() calls
MaxModelsCalls == 3 \* models() calls of the registry

ProviderIds == 1..MaxProviders

NoModels == <<>>

PlatformModels(p, list) == <<[provider |-> p, list |-> list]>>

\* the loop of DefaultProviderRegistry.models over the ids from position i
\* on; st holds _providerModels, the refresh promises, `result` and
\* `promises`
RECURSIVE ModelsLoop(_, _, _)
ModelsLoop(ids, i, st) ==
    IF i > Len(ids) THEN st
    ELSE LET providerId == ids[i]
         IN IF st.providerModels[providerId] # NoModels
            THEN LET cachedModels == st.providerModels[providerId]
                 IN ModelsLoop(ids, i + 1,
                        [st EXCEPT
                            !.result = @ \o cachedModels,
                            !.promises = Append(@,
                                [kind |-> "resolved",
                                 models |-> cachedModels])])
            ELSE LET cachePlatformModels ==
                        PlatformModels(providerId, "hardcoded")
                 IN ModelsLoop(ids, i + 1,
                        [st EXCEPT
                            !.result = @ \o cachePlatformModels,
                            !.providerModels[providerId] =
                                cachePlatformModels,
                            !.refreshes = Append(@,
                                [provider |-> providerId,
                                 status |-> "pending"]),
                            !.promises = Append(@,
                                [kind |-> "refresh",
                                 refresh |-> Len(st.refreshes) + 1])])

\* DefaultProviderRegistry.models() on registry r
RegistryModels(r) ==
    ModelsLoop(r.providers, 1,
               [providerModels |-> r.providerModels,
                refreshes |-> refreshes,
                result |-> <<>>, promises |-> <<>>])

\* the value the promise `promises[i]` is fulfilled with
PromiseModels(promise, rs) ==
    IF promise.kind = "resolved" THEN promise.models
    ELSE PlatformModels(rs[promise.refresh].provider, "latest")

RECURSIVE Flat(_, _)
Flat(ps, rs) ==
    IF Len(ps) = 0 THEN <<>>
    ELSE PromiseModels(Head(ps), rs) \o Flat(Tail(ps), rs)

\* state of Promise.all(promises).then((models) => models.flat())
AllStatus(ps, rs) ==
    IF \E i \in 1..Len(ps) :
            /\ ps[i].kind = "refresh"
            /\ rs[ps[i].refresh].status = "rejected"
    THEN "rejected"
    ELSE IF \E i \in 1..Len(ps) :
            /\ ps[i].kind = "refresh"
            /\ rs[ps[i].refresh].status = "pending"
    THEN "pending"
    ELSE "fulfilled"

\* try { return await lateast } catch (e) { logger.error(e); return cached }
ServiceSettle(c, rs) ==
    LET s == AllStatus(c.promises, rs)
    IN IF s = "pending" THEN c
       ELSE IF s = "fulfilled"
       THEN [c EXCEPT !.status = "fulfilled",
                      !.value = Flat(c.promises, rs)]
       ELSE [c EXCEPT !.status = "fulfilled", !.value = c.cached]

\* (async () => { await this.models()[1] })(): the promise of the async
\* function, which nothing is chained to
AsyncSettle(c, rs) ==
    LET s == AllStatus(c.promises, rs)
    IN IF s = "pending" THEN c
       ELSE [c EXCEPT !.status = s, !.value = <<>>]

\* a pending models() call sees its promise settle
Settle(c, rs) ==
    IF c.status # "pending" THEN c
    ELSE IF c.owner = "service" THEN ServiceSettle(c, rs)
    ELSE AsyncSettle(c, rs)

RECURSIVE SettleAll(_, _)
SettleAll(cs, rs) ==
    IF Len(cs) = 0 THEN <<>>
    ELSE <<Settle(Head(cs), rs)>> \o SettleAll(Tail(cs), rs)

NewCall(owner, m) ==
    Settle([owner |-> owner, promises |-> m.promises, cached |-> m.result,
            status |-> "pending", value |-> <<>>], m.refreshes)

\* DefaultProviderRegistry.registerProvider({ id, provider })
registerProvider(id) ==
    /\ UNCHANGED notRegistry
    /\ Len(modelsCalls) < MaxModelsCalls
    /\ Len(refreshes) < MaxRefreshes
    /\ LET ids == IF \E i \in 1..Len(registry.providers) :
                        registry.providers[i] = id
                  THEN registry.providers
                  ELSE Append(registry.providers, id)
           m == RegistryModels([registry EXCEPT !.providers = ids])
       IN /\ registry' = [providers |-> ids,
                          providerModels |-> m.providerModels]
          /\ refreshes' = m.refreshes
          /\ modelsCalls' =
                Append(modelsCalls, NewCall("registerProvider", m))

RECURSIVE Without(_, _)
Without(ids, id) ==
    IF Len(ids) = 0 THEN <<>>
    ELSE IF Head(ids) = id THEN Without(Tail(ids), id)
    ELSE <<Head(ids)>> \o Without(Tail(ids), id)

\* the function registerProvider returned is called
unregisterProvider(id) ==
    /\ UNCHANGED notRegistry
    /\ \/ \E i \in 1..Len(registry.providers) : registry.providers[i] = id
       \/ registry.providerModels[id] # NoModels
    /\ registry' = [providers |-> Without(registry.providers, id),
                    providerModels |->
                        [registry.providerModels EXCEPT ![id] = NoModels]]
    /\ UNCHANGED <<refreshes, modelsCalls>>

\* CortexLunaService.models()
serviceModels ==
    /\ UNCHANGED notRegistry
    /\ Len(modelsCalls) < MaxModelsCalls
    /\ LET m == RegistryModels(registry)
       IN /\ registry' = [registry EXCEPT
                            !.providerModels = m.providerModels]
          /\ refreshes' = m.refreshes
          /\ modelsCalls' = Append(modelsCalls, NewCall("service", m))

\* a provider's latest list arrives: the then-callback of models() stores
\* it, then the calls waiting for it go on
refreshFulfils(k) ==
    /\ UNCHANGED notRegistry
    /\ k \in 1..Len(refreshes)
    /\ refreshes[k].status = "pending"
    /\ LET rs == [refreshes EXCEPT ![k].status = "fulfilled"]
           providerId == refreshes[k].provider
       IN /\ refreshes' = rs
          /\ registry' = [registry EXCEPT
                            !.providerModels[providerId] =
                                PlatformModels(providerId, "latest")]
          /\ modelsCalls' = SettleAll(modelsCalls, rs)

\* a provider's refresh rejects
refreshRejects(k) ==
    /\ UNCHANGED notRegistry
    /\ k \in 1..Len(refreshes)
    /\ refreshes[k].status = "pending"
    /\ LET rs == [refreshes EXCEPT ![k].status = "rejected"]
       IN /\ refreshes' = rs
          /\ modelsCalls' = SettleAll(modelsCalls, rs)
    /\ UNCHANGED registry

RegistryInit ==
    /\ registry = [providers |-> <<>>,
                   providerModels |-> [p \in ProviderIds |-> NoModels]]
    /\ refreshes = <<>>
    /\ modelsCalls = <<>>
    /\ createProviderPool /\ LimiterParked /\ RetryParked /\ ToolParked
    /\ StreamParked /\ GenerateParked /\ ExecuteParked /\ MergeParked
    /\ UsageParked /\ ChatParked /\ DeliveryParked

RegistryNext ==
    \/ \E id \in ProviderIds : registerProvider(id)
    \/ \E id \in ProviderIds : unregisterProvider(id)
    \/ serviceModels
    \/ \E k \in 1..MaxRefreshes : refreshFulfils(k)
    \/ \E k \in 1..MaxRefreshes : refreshRejects(k)

RegistrySpec == RegistryInit /\ [][RegistryNext]_vars

----------------------------------------------------------------------------
(* OpenAICompatibleLanguageModel.doGenerate (openai-compatible language    *)
(* model) with a round-robin provider pool as its requestConfig.  The pool *)
(* holds n enabled configs without maxConcurrentRequests, all with the     *)
(* same maxRetries; the doGenerate calls are made one after another, each  *)
(* awaited before the next, so the model's concurrency limiter starts      *)
(* every task at once.                                                     *)
MaxPoolConfigs == 3     \* configs of the model's pool
MaxChatRetries == 1     \* largest maxRetries of a config
MaxDoGenerate == 4      \* doGenerate calls made on the model

\* the pool after addProvider({ apiKey: i }) for i = 1..n
RECURSIVE PoolOf(_)
PoolOf(n) ==
    IF n = 0 THEN <<>>
    ELSE LET config == << <<"apiKey", n>> >>
         IN Append(PoolOf(n - 1),
                   [id |-> generateConfigId(config), config |-> config,
                    currentConcurrent |-> 0, enabled |-> TRUE])

\* getAvailableProviders() on the provider states ps: positions i upwards
RECURSIVE AvailableFrom(_, _)
AvailableFrom(ps, i) ==
    IF i > Len(ps) THEN <<>>
    ELSE IF IsAvailable(ps[i]) THEN <<i>> \o AvailableFrom(ps, i + 1)
    ELSE AvailableFrom(ps, i + 1)

\* the getter providerConfig: requestConfig.getProvider().config on the
\* pool state st; the handle is dropped, release() is never called
providerConfig(st) ==
    LET available == AvailableFrom(st.providers, 1)
        r == CHOOSE x \in RoundRobin(available, st.rrIndex) : TRUE
    IN [providers |-> [st.providers EXCEPT
                            ![r.sel].currentConcurrent = @ + 1],
        rrIndex |-> r.rr,
        config |-> r.sel]

PoolState == [providers |-> providers, rrIndex |-> rrIndex, config |-> 0]

\* the task handed to the limiter: `providerConfig = this.providerConfig`,
\* then generateResponse() up to its fetch
SendRequest(st, call) ==
    LET read == providerConfig(st)
    IN /\ providers' = read.providers
       /\ rrIndex' = read.rrIndex
       /\ requests' = Append(requests,
                             [call |-> call, config |-> read.config])

chatFrame == <<limiterVars, retryVars, toolVars, streamVars, generateVars,
               executeVars, mergeVars, usageVars, registryVars,
               deliveryVars, handles, op, winSel, winAvail, winHeld>>

\* doGenerate(options) up to the fetch: `let providerConfig =
\* this.providerConfig`, the options `maxTimeout: this.providerConfig
\* .timeout` and `retries: this.providerConfig.maxRetries` of createRetry,
\* then limiter.add() runs the task
doGenerate ==
    /\ UNCHANGED chatFrame
    /\ chat.pc \in {"idle", "resolved", "rejected"}
    /\ chat.calls < MaxDoGenerate
    /\ LET first == providerConfig(PoolState)
           maxTimeout == providerConfig([first EXCEPT !.config = 0])
           retriesRead == providerConfig([maxTimeout EXCEPT !.config = 0])
       IN /\ chat' = [chat EXCEPT !.pc = "fetching",
                                  !.calls = @ + 1,
                                  !.attempt = 0]
          /\ SendRequest([retriesRead EXCEPT !.config = 0], chat.calls + 1)

\* the `choices` arrays of a response that passes the schema: the schema
\* sets no least length
ResponseChoices == { <<>>, <<"message">> }

\* the response arrives and passes the schema: the retrier and the limiter
\* return it, and doGenerate reads `parsedResponse.choices[0].message`,
\* which throws a TypeError, outside the retrier, when there is no choice
fetchResolves(choices) ==
    /\ UNCHANGED chatFrame
    /\ chat.pc = "fetching"
    /\ chat' = [chat EXCEPT !.pc = IF Len(choices) = 0
                                   THEN "rejected" ELSE "resolved"]
    /\ UNCHANGED <<providers, rrIndex, requests>>

\* fetch rejects or the response does not parse: the catch block of the
\* retrier rethrows or schedules the next attempt
fetchFails ==
    /\ UNCHANGED chatFrame
    /\ chat.pc = "fetching"
    /\ chat' = [chat EXCEPT !.pc = IF chat.attempt >= chat.retries
                                   THEN "rejected" ELSE "waiting"]
    /\ UNCHANGED <<providers, rrIndex, requests>>

\* the retry timer fires: the task runs again
chatRetry ==
    /\ UNCHANGED chatFrame
    /\ chat.pc = "waiting"
    /\ chat' = [chat EXCEPT !.pc = "fetching", !.attempt = @ + 1]
    /\ SendRequest(PoolState, chat.calls)

ChatInit ==
    /\ \E n \in 2..MaxPoolConfigs, r \in 0..MaxChatRetries :
            /\ providers = PoolOf(n)
            /\ chat = [pc |-> "idle", calls |-> 0, attempt |-> 0,
                       retries |-> r]
    /\ requests = <<>>
    /\ rrIndex = 0
    /\ handles = [k \in HandleKinds |-> 0]
    /\ op = "other"
    /\ winSel = <<>> /\ winAvail = {} /\ winHeld = FALSE
    /\ LimiterParked /\ RetryParked /\ ToolParked /\ StreamParked
    /\ GenerateParked /\ ExecuteParked /\ MergeParked /\ UsageParked
    /\ RegistryParked /\ DeliveryParked

ChatNext ==
    \/ doGenerate
    \/ \E choices \in ResponseChoices : fetchResolves(choices)
    \/ fetchFails
    \/ chatRetry

ChatSpec == ChatInit /\ [][ChatNext]_vars

----------------------------------------------------------------------------
(* Properties of the provider config pool *)
Stored(i) == providers[i]

Cap(p) == ConfigGet(p.config, "maxConcurrentRequests")

WinSet == { winSel[i] : i \in 1..Len(winSel) }

\* C1: under round-robin, n consecutive getProvider() calls, each released
\* before the next, over an unchanged available set of n configs return
\* each of the n configs exactly once (winSel holds the last n selections
\* of such a run, winAvail its available set).
C1_RoundRobinVisitsEachOnce ==
    (winSel # <<>> /\ Len(winSel) = Cardinality(winAvail)) => WinSet = winAvail

\* a completed run of two calls over two available configs while a third
\* stored config is unavailable, the cursor not at 0 when the run began
C1_Witness ==
    /\ Len(winSel) = 2 /\ Cardinality(winAvail) = 2 /\ ~winHeld
    /\ Len(providers) = 3
    /\ winSel[1] = 2

\* C7 as stated: 0 <= currentConcurrent always, and currentConcurrent <=
\* maxConcurrentRequests whenever the config sets a cap.
C7_Original_CounterWithinAnyCap ==
    \A i \in 1..Len(providers) :
        /\ Stored(i).currentConcurrent >= 0
        /\ Cap(Stored(i)) # UNDEF => Stored(i).currentConcurrent <= Cap(Stored(i))

\* C7 (amended): 0 <= currentConcurrent always, and currentConcurrent <=
\* maxConcurrentRequests whenever the config sets a cap other than 0 (a cap
\* of 0 is read as no cap).
C7_CounterWithinPositiveCap ==
    \A i \in 1..Len(providers) :
        /\ Stored(i).currentConcurrent >= 0
        /\ Truthy(Cap(Stored(i))) => Stored(i).currentConcurrent <= Cap(Stored(i))

\* a capped config is full, one released handle is still around, and a
\* further caller has just been refused
C7_Witness ==
    /\ op = "getProviderThrow"
    /\ \E i \in 1..Len(providers) :
            /\ Truthy(Cap(Stored(i)))
            /\ Stored(i).enabled
            /\ Stored(i).currentConcurrent = Cap(Stored(i))
            /\ handles[<<i, 1>>] > 0

\* availability as the specification words it: only an unset cap is unbounded
ClaimedAvailableUnsetOnly ==
    { i \in 1..Len(providers) :
        /\ Stored(i).enabled
        /\ (Cap(Stored(i)) = UNDEF \/ Stored(i).currentConcurrent < Cap(Stored(i))) }

\* availability with an unset or zero cap unbounded
ClaimedAvailable ==
    { i \in 1..Len(providers) :
        /\ Stored(i).enabled
        /\ (~Truthy(Cap(Stored(i))) \/ Stored(i).currentConcurrent < Cap(Stored(i))) }

\* C8 as stated: getProvider() throws exactly when no stored config is
\* enabled and below its cap, an unset cap counting as unbounded; a throwing
\* call changes no counter, no enabled flag and not the cursor.
C8_Original_ThrowsIffNoneAvailable ==
    [][ op' \in {"getProvider", "getProviderThrow"} =>
          /\ (op' = "getProviderThrow") <=> (ClaimedAvailableUnsetOnly = {})
          /\ op' = "getProviderThrow" => UNCHANGED <<providers, rrIndex, handles>>
      ]_vars

\* C8 (amended): getProvider() throws exactly when no stored config is
\* enabled and below its cap, an unset or zero cap counting as unbounded; a
\* throwing call changes no counter, no enabled flag and not the cursor.
C8_ThrowsIffNoneAvailable ==
    [][ op' \in {"getProvider", "getProviderThrow"} =>
          /\ (op' = "getProviderThrow") <=> (ClaimedAvailable = {})
          /\ op' = "getProviderThrow" => UNCHANGED <<providers, rrIndex, handles>>
      ]_vars

\* a call has thrown although an enabled config is stored (it is at its
\* cap) and the cursor is not at its initial position
C8_Witness ==
    /\ op = "getProviderThrow"
    /\ rrIndex > 0
    /\ \E i \in 1..Len(providers) :
            Stored(i).enabled /\ Stored(i).currentConcurrent > 0

SamePairs(c1, c2) ==
    { c1[i] : i \in 1..Len(c1) } = { c2[i] : i \in 1..Len(c2) }

\* C9: an addProvider call leaves every stored state as it was (same
\* position, same currentConcurrent and enabled flag), and after it no two
\* stored states have configs with the same key/value pairs, whatever the
\* key order of the config passed.
C9_AddProviderIdempotent ==
    [][ op' = "addProvider" =>
          /\ \A i \in 1..Len(providers) :
                /\ i <= Len(providers')
                /\ providers'[i] = providers[i]
          /\ \A i, j \in 1..Len(providers') :
                SamePairs(providers'[i].config, providers'[j].config)
                    => i = j
      ]_vars

\* the last operation was an addProvider that added nothing: the only
\* stored state, whose config has two keys, is in use and disabled
C9_Witness ==
    /\ op = "addProvider"
    /\ Len(providers) = 1
    /\ Len(Stored(1).config) = 2
    /\ Stored(1).currentConcurrent = 1
    /\ ~Stored(1).enabled

----------------------------------------------------------------------------
(* Properties of the concurrency limiter *)

Running == { t \in Tasks : taskStatus[t] = "running" }

(* C2: for a limiter created with concurrency c >= 1, under every          *)
(* interleaving of add() calls and task settlements, the number of tasks   *)
(* that were started and have not yet settled never exceeds c.             *)
C2_RunningWithinConcurrency == Cardinality(Running) <= concurrency

\* c = 2, three tasks added: two are running and the third waits
C2_Witness ==
    /\ concurrency = 2
    /\ Cardinality(Running) = 2
    /\ Len(queue) = 1
    /\ pending = 2

----------------------------------------------------------------------------
(* Properties of the retry wrapper *)

RetrySettled == retryPc \in {"resolved", "rejected"}

(* C3 as stated: whenever fn fails on its first k invocations and succeeds *)
(* on the next one, with k <= retries, the call resolves with the          *)
(* successful value and fn was invoked exactly k + 1 times.                *)
C3_Original_SucceedsAfterKFailures ==
    (RetrySettled /\ failFirst <= retries)
        => /\ retryPc = "resolved"
           /\ retryResult = "value"
           /\ fnCalls = failFirst + 1

(* C3: if shouldRetry allows every retry (the default) and no invocation   *)
(* is outlasted by the maxTimeout timer, a function that fails on its      *)
(* first k invocations and succeeds on the next one, with k <= retries,    *)
(* makes the call resolve with the successful value after exactly k + 1    *)
(* invocations.                                                            *)
C3_SucceedsAfterKFailures ==
    (RetrySettled /\ failFirst <= retries
        /\ shouldRetry = "always" /\ ~timedOut)
        => /\ retryPc = "resolved"
           /\ retryResult = "value"
           /\ fnCalls = failFirst + 1

\* k = 2 with retries = 4: resolved after 3 invocations
C3_Witness ==
    /\ retryPc = "resolved"
    /\ failFirst = 2 /\ retries = 4
    /\ shouldRetry = "always" /\ ~timedOut
    /\ fnCalls = 3
    /\ onRetryCalls = 2

----------------------------------------------------------------------------
(* Properties of the tool-call engine *)

Registered(name, t) ==
    t.defined /\ \E i \in 1..Len(t.list) : t.list[i].name = name

(* C4 as stated: parseToolCall never throws; for every tool call and       *)
(* every tools argument (a non-empty list, an empty list or undefined) a   *)
(* tool name that is not registered yields a returned tool-call part with  *)
(* toolName "_exception" and an error payload.                             *)
C4_UnregisteredNameYieldsSentinel ==
    /\ parsed.kind # "throw"
    /\ (parsed.kind # "none" /\ ~Registered(toolCall.toolName, tools))
          => /\ parsed.kind = "return"
             /\ parsed.part.toolName = "_exception"
             /\ parsed.part.args[1] = "error"

----------------------------------------------------------------------------
(* Properties of streamText *)

\* the model streamed a call of tool a in the first round, and a text
\* delta followed by finish in the second round
TwoRoundToolScenario ==
    /\ streamTools.defined
    /\ rounds = 2
    /\ Len(readLog) = 3
    /\ readLog[1] = <<1, "tool-call", "a">>
    /\ readLog[2][1] = 2 /\ readLog[2][2] = "text-delta"
    /\ readLog[3][1] = 2 /\ readLog[3][2] = "finish"

(* C5 as stated: when the model streams a tool call in the first round and *)
(* text followed by finish in the second round, then once fullStream has   *)
(* been drained the finishReason, usage, steps and toolResults promises    *)
(* are resolved and steps holds exactly 2 entries.                         *)
C5_TwoRoundsGiveTwoSteps ==
    (TwoRoundToolScenario /\ consumer = "done")
        => /\ \A n \in {"finishReason", "usage", "steps", "toolResults"} :
                    promises[n].status = "fulfilled"
           /\ Len(promises["steps"].value) = 2

(* C6: in every execution of streamText the nine result promises are, at   *)
(* every moment, in the same condition (all pending, all fulfilled or all  *)
(* rejected); each settles at most once and has settled when the producer  *)
(* has ended; none settles before the producer loop has completed or       *)
(* failed.                                                                 *)
C6_PromisesSettleTogether ==
    /\ \A n, m \in PromiseNames : promises[n].status = promises[m].status
    /\ \A n \in PromiseNames : promises[n].settles <= 1
    /\ (pc \in {"done", "failed"})
            => \A n \in PromiseNames : /\ promises[n].status # "pending"
                                       /\ promises[n].settles = 1
    /\ (\E n \in PromiseNames : promises[n].status # "pending")
            => pc \in {"closing", "done", "failed"}

\* the promises were resolved, then writer.close() rejected and the catch
\* block called reject on each of them
C6_Witness ==
    /\ pc = "failed"
    /\ pipe = "cancelled"
    /\ \A n \in PromiseNames : /\ promises[n].status = "fulfilled"
                                /\ promises[n].settles = 1
    /\ Len(readLog) > 0

ErrorChunkRead == \E i \in 1..Len(readLog) : readLog[i][2] = "error"

(* C10 as stated: when the model stream yields an error chunk, a part of   *)
(* type error is emitted to fullStream, and every result promise rejects   *)
(* with that error.                                                        *)
C10_ErrorChunkEmittedAndRejects ==
    (ErrorChunkRead /\ pc = "failed" /\ consumer = "failed")
        => /\ \E i \in 1..Len(written) : written[i].type = "error"
           /\ \A n \in PromiseNames :
                    /\ promises[n].status = "rejected"
                    /\ promises[n].value = "model-error"

----------------------------------------------------------------------------
(* Properties of streamText: the prompt of a follow-up round.              *)

\* model.doStream has just been called again after a round whose tool
\* calls were executed and none of them returned directly
FollowUpRoundIssued ==
    /\ pc = "doStream"
    /\ Len(prompts) >= 2
    /\ Len(state.toolCalls) > 0

\* C11: after a round in which tool calls were executed and no tool
\* returned directly, the prompt of the next model.doStream call carries
\* that round's tool results appended to the history, and it differs from
\* the prompt of the round before.
C11_NextPromptCarriesToolResults ==
    FollowUpRoundIssued =>
        LET n == Len(prompts)
        IN /\ \E j \in 1..Len(prompts[n]) :
                    /\ prompts[n][j].role = "tool"
                    /\ prompts[n][j].content = state.toolResults
           /\ prompts[n] # prompts[n - 1]

----------------------------------------------------------------------------
(* Properties of generatateText *)

\* model.doGenerate is never called more often than maxSteps allows
CallsWithinMaxSteps ==
    genPc # "start" => doGenerateCalls <= genMaxSteps

\* a maxSteps argument below 1 ends the call before the model is called
RejectedBeforeAnyCall ==
    (genPc # "start" /\ genMaxSteps < 1) =>
        genPc = "threw" /\ doGenerateCalls = 0

\* a call whose model answered every doGenerate call does not end in an
\* exception, and it has ended once maxSteps steps are complete
ReturnsAResult ==
    /\ (genPc = "threw" /\ onErrorCalls = 0) => genMaxSteps < 1
    /\ (genPc # "start" /\ stepCount >= genMaxSteps) =>
            genPc \in {"returned", "threw"}

\* C12: generatateText calls model.doGenerate at most maxSteps times
\* whatever the model returns, and then returns a result; a maxSteps value
\* below 1 is rejected before any model call.
C12_AtMostMaxStepsCallsThenResult ==
    /\ CallsWithinMaxSteps
    /\ RejectedBeforeAnyCall
    /\ ReturnsAResult

\* C13: if a tool executed in a step declares returnDirect, no further
\* model.doGenerate call is made after that step.
C13_ReturnDirectEndsLoop ==
    returnDirectly => genPc # "doGenerate"

----------------------------------------------------------------------------
(* Properties of executeTools *)
ExecResults == execOutcome.results

\* C14: when executeTools returns, it returns exactly one result per input
\* tool call and the i-th result carries the toolCallId of the i-th input
\* call, whatever the order in which the tools completed.
C14_ResultsInCallOrder ==
    execPc = "resolved" =>
        /\ Len(ExecResults) = Len(execCalls)
        /\ \A i \in 1..Len(execCalls) :
                ExecResults[i].toolCallId = execCalls[i].toolCallId

\* two tools ran and the second one completed before the first
C14_Witness ==
    /\ execPc = "resolved"
    /\ Len(execCalls) = 2
    /\ completion = <<2, 1>>

\* tool call i names a registered tool whose call() throws or rejects
CallFails(i) ==
    /\ execCalls[i].toolName # "_exception"
    /\ FindTool(execTools, execCalls[i].toolName) # 0
    /\ execTools[FindTool(execTools, execCalls[i].toolName)].call # "ok"

\* tool call i names a tool that `tools` does not hold
NamesMissingTool(i) ==
    /\ execCalls[i].toolName # "_exception"
    /\ FindTool(execTools, execCalls[i].toolName) = 0

\* the error a failed tool call is reported with
FailureArgs(i) == <<"error", "failed to execute", execCalls[i].toolName>>

\* the results of the tool calls that did not fail are what they are
\* without any failing call
OthersUnaffected ==
    \A i \in 1..Len(execCalls) :
        ~CallFails(i) =>
            /\ ExecResults[i].toolCallId = execCalls[i].toolCallId
            /\ ExecResults[i].toolName = execCalls[i].toolName
            /\ ExecResults[i].args = execCalls[i].args
            /\ ExecResults[i].result =
                    IF execCalls[i].toolName = "_exception"
                    THEN execCalls[i].args ELSE "ok"

\* C15 as stated: if a tool's call() throws or rejects, executeTools still
\* resolves, the failing call is represented by an `_exception` result
\* part carrying the error, and the other results are unaffected.
C15_Original_FailureBecomesExceptionPart ==
    (execPc \in {"resolved", "rejected"}
        /\ \E i \in 1..Len(execCalls) : CallFails(i)) =>
        /\ execPc = "resolved"
        /\ \A i \in 1..Len(execCalls) :
              CallFails(i) =>
                /\ ExecResults[i].toolName = "_exception"
                /\ ExecResults[i].result = FailureArgs(i)
        /\ OthersUnaffected

\* C15 (amended): a throwing or rejecting call() never makes executeTools
\* reject (it rejects only when a call names a tool missing from `tools`);
\* when it resolves, the failing call is represented at its position by a
\* result part that keeps the failing tool's own toolName and carries the
\* error as args and result, and the other results are unaffected.
C15_FailureBecomesResultPart ==
    /\ execPc = "rejected" => \E i \in 1..Len(execCalls) : NamesMissingTool(i)
    /\ execPc = "resolved" =>
        /\ \A i \in 1..Len(execCalls) :
              CallFails(i) =>
                /\ ExecResults[i].toolCallId = execCalls[i].toolCallId
                /\ ExecResults[i].toolName = execCalls[i].toolName
                /\ ExecResults[i].args = FailureArgs(i)
                /\ ExecResults[i].result = FailureArgs(i)
        /\ OthersUnaffected

\* a rejecting tool and a fulfilling tool ran together and executeTools
\* resolved
C15_Witness ==
    /\ execPc = "resolved"
    /\ Len(execCalls) = 2
    /\ CallFails(1) /\ execCalls[1].toolName = "r"
    /\ execCalls[2].toolName = "a"
    /\ completion = <<2, 1>>

----------------------------------------------------------------------------
(* Properties of the retry wrapper: a function that never settles *)

\* no invocation of fn has settled so far
NeverSettled == fnRunning = fnCalls

TimeoutError == "timeout"

\* while no invocation has settled, every failed attempt failed with the
\* timeout error, and a rejection carries it after at most retries + 1
\* attempts
TimeoutsOnly ==
    NeverSettled =>
        /\ \A i \in 1..Len(previousAttempts) :
                previousAttempts[i][2] = TimeoutError
        /\ retryPc = "rejected" =>
                /\ retryResult = TimeoutError
                /\ fnCalls <= retries + 1

\* C16: a retry-wrapped call whose function never settles does not hang:
\* every attempt loses its race to the maxTimeout timer and fails with the
\* timeout error, and after at most retries + 1 attempts the call rejects
\* with that error.
C16_NeverSettlingCallTimesOut ==
    /\ []TimeoutsOnly
    /\ (retryPc = "racing" /\ NeverSettled)
            ~> ((retryPc = "rejected" /\ retryResult = TimeoutError)
                    \/ ~NeverSettled)

\* the call was rejected with the timeout error after retries + 1 attempts
\* none of which settled, with more than one attempt made
C16_Witness ==
    /\ retryPc = "rejected"
    /\ NeverSettled
    /\ retries >= 2
    /\ fnCalls = retries + 1
    /\ retryResult = TimeoutError

----------------------------------------------------------------------------
(* Properties of the limiter: onIdle and the order of starts *)

\* no task threw before it returned a promise
NoTaskThrew == \A t \in Tasks : taskStatus[t] # "threw"

\* C17: if every task added to the limiter settles and no further task is
\* added, pending and size return to 0 and every onIdle() promise, also
\* one requested while tasks are running or after an earlier one, resolves;
\* at the moment an onIdle() promise resolves, size = 0 and pending = 0.
C17_OnIdleResolvesWhenDrained ==
    /\ [][idleResolved' > idleResolved => (Len(queue') = 0 /\ pending' = 0)]_vars
    /\ []NoTaskThrew =>
          /\ []<>(Len(queue) = 0 /\ pending = 0)
          /\ (idleWaiters > 0) ~> (idleWaiters = 0)

\* every task has run to its end and both onIdle() promises have resolved
C17_Witness ==
    /\ \A t \in Tasks : taskStatus[t] = "done"
    /\ idleResolved = 2
    /\ idleWaiters = 0
    /\ pending = 0 /\ Len(queue) = 0

\* C18: the limiter starts tasks in the order they were added: a task is
\* never started while a task added earlier is still waiting in the queue.
C18_StartsInAddOrder ==
    /\ \A i, j \in 1..Len(startOrder) :
            i < j => startOrder[i] < startOrder[j]
    /\ \A i \in 1..Len(startOrder) :
            \A u \in 1..(startOrder[i] - 1) : taskStatus[u] # "queued"

\* with one slot, the third task started after the second had waited in
\* the queue together with it
C18_Witness ==
    /\ concurrency = 1
    /\ startOrder = <<1, 2, 3>>
    /\ taskStatus[1] = "done" /\ taskStatus[2] = "done"
    /\ taskStatus[3] = "running"


----------------------------------------------------------------------------
(* Properties of concatChunks *)

\* the parts left by the merge loop of concatChunks(...chunks)
MergedContent == MergeParts(<<>>, AllParts(chunks))

SingleTextPart == Len(MergedContent) = 1 /\ MergedContent[1].type = "text"

\* C19: merging is idempotent on its own result: concatChunks applied to
\* the single chunk concatChunks(...cs) returns the same role and the same
\* content as concatChunks(...cs), nothing duplicated and nothing dropped.
C19_MergeIdempotent ==
    mergePc = "remerged" =>
        /\ remerged.kind = "return"
        /\ remerged.chunk.role = merged.chunk.role
        /\ remerged.chunk.content = merged.chunk.content

\* two chunks were merged, parts were folded together and still more than
\* one part is left, and the result went through concatChunks again
C19_Witness ==
    /\ mergePc = "remerged"
    /\ Len(chunks) = 2
    /\ merged.chunk.content.kind = "array"
    /\ Len(merged.chunk.content.parts) >= 2
    /\ Len(merged.chunk.content.parts) < Len(AllParts(chunks))
    /\ \E i \in 1..Len(merged.chunk.content.parts) :
            merged.chunk.content.parts[i].type = "tool-result"

\* C20 as stated: whenever the merged content is exactly one text part,
\* the returned content is a plain string, whether the input chunks carried
\* string content or array content.
C20_Original_SingleTextPartIsString ==
    (merged.kind = "return" /\ SingleTextPart) =>
        merged.chunk.content.kind = "string"

\* C20: the returned content is a plain string exactly when the merged
\* content is one text part and every input chunk carried string content;
\* the string is then the text of that part.  If any input chunk carried
\* array content the content stays an array, a single text part included.
C20_StringOnlyFromStringChunks ==
    merged.kind = "return" =>
        /\ merged.chunk.content.kind = "string"
                <=> (SingleTextPart /\ ConcatToString(chunks))
        /\ merged.chunk.content.kind = "string"
                => merged.chunk.content.text = MergedContent[1].text
        /\ merged.chunk.content.kind = "array"
                => merged.chunk.content.parts = MergedContent

\* two string chunks were merged into one plain string
C20_Witness ==
    /\ merged.kind = "return"
    /\ Len(chunks) = 2
    /\ chunks[1].content = StringContent(<<"a">>)
    /\ chunks[2].content = StringContent(<<"b", "c">>)
    /\ merged.chunk.content = StringContent(<<"a", "b", "c">>)


\* s1 + ... + sn for the string contents of cs
RECURSIVE JoinStrings(_)
JoinStrings(cs) ==
    IF Len(cs) = 0 THEN <<>>
    ELSE Head(cs).content.text \o JoinStrings(Tail(cs))

\* the same for contents that are arrays holding one text part each
RECURSIVE JoinSingleTexts(_)
JoinSingleTexts(cs) ==
    IF Len(cs) = 0 THEN <<>>
    ELSE Head(cs).content.parts[1].text \o JoinSingleTexts(Tail(cs))

AllStringContents ==
    \A i \in 1..Len(chunks) : chunks[i].content.kind = "string"

AllSingleTextArrays ==
    \A i \in 1..Len(chunks) :
        /\ chunks[i].content.kind = "array"
        /\ Len(chunks[i].content.parts) = 1
        /\ chunks[i].content.parts[1].type = "text"

\* C21: concatChunks concatenates text in chunk order without loss or
\* duplication: string contents s1..sn give the string s1+...+sn, and
\* contents that are arrays holding one text part each give an array with a
\* single text part whose text is the in-order concatenation.
C21_TextConcatenatedInOrder ==
    merged.kind = "return" =>
        /\ AllStringContents =>
                merged.chunk.content = StringContent(JoinStrings(chunks))
        /\ AllSingleTextArrays =>
                merged.chunk.content =
                    ArrayContent(<<TextPart(JoinSingleTexts(chunks))>>)

\* two arrays with one text part each were merged into one text part that
\* holds the first text followed by the second
C21_Witness ==
    /\ merged.kind = "return"
    /\ Len(chunks) = 2
    /\ chunks[1].content = ArrayContent(<<TextPart(<<"a">>)>>)
    /\ chunks[2].content = ArrayContent(<<TextPart(<<"b", "c">>)>>)
    /\ merged.chunk.content =
            ArrayContent(<<TextPart(<<"a", "b", "c">>)>>)


----------------------------------------------------------------------------
(* Properties of addLanguageModelUsage *)

\* C22: for all usage records u1, u2, u3 the totalTokens of
\* addLanguageModelUsage(u1, u2) is u1.totalTokens + u2.totalTokens, and
\* addLanguageModelUsage is commutative and associative.
C22_UsageSumCommutativeAssociative ==
    /\ Len(usageOut) >= 2 =>
            /\ usageOut[1].totalTokens =
                    usageArgs[1].totalTokens + usageArgs[2].totalTokens
            /\ usageOut[1] = usageOut[2]
    /\ Len(usageOut) = 4 => usageOut[3] = usageOut[4]

\* three records that differ from one another, one of them without
\* cachedTokens and one whose totalTokens is not the sum of its two other
\* counts, were added in both groupings
C22_Witness ==
    /\ Len(usageOut) = 4
    /\ usageArgs[1] # usageArgs[2]
    /\ usageArgs[2] # usageArgs[3]
    /\ usageArgs[1].cachedTokens = UNDEF
    /\ usageArgs[2].cachedTokens = MaxTokens
    /\ usageArgs[3].totalTokens
            # usageArgs[3].promptTokens + usageArgs[3].completionTokens
    /\ usageOut[4].totalTokens > 0


----------------------------------------------------------------------------
(* Properties of the provider registry *)

\* C23: when a provider's model-list refresh rejects, the failure is not
\* propagated to any caller: the async function registerProvider started
\* ends without a rejection that nobody handles, the promise of
\* CortexLunaService.models() does not reject, and a models() call that saw
\* the rejection returns the cached snapshot.
C23_RefreshFailureNotPropagated ==
    \A i \in 1..Len(modelsCalls) :
        /\ modelsCalls[i].status # "rejected"
        /\ (/\ modelsCalls[i].owner = "service"
            /\ modelsCalls[i].status = "fulfilled"
            /\ AllStatus(modelsCalls[i].promises, refreshes) = "rejected")
                => modelsCalls[i].value = modelsCalls[i].cached


----------------------------------------------------------------------------
(* Properties of the streamText output pipe *)

\* kind of a content part written to the pipe, "" for any other part
WrittenKind(i) ==
    IF written[i].type = "response-metadata" THEN ""
    ELSE CurrentPartType(written[i])

\* position of the last content part before position i, 0 if there is none
PreviousContent(i) ==
    IF \E j \in 1..(i - 1) : WrittenKind(j) # ""
    THEN CHOOSE j \in 1..(i - 1) :
            /\ WrittenKind(j) # ""
            /\ \A k \in (j + 1)..(i - 1) : WrittenKind(k) = ""
    ELSE 0

\* C24: on the streamText output pipe, whenever the kind of a content part
\* differs from the kind of the previous content part, exactly one
\* response-metadata part naming the new kind is written, and it is
\* written before the first part of the new kind.
C24_MetadataBeforeNewKind ==
    \A i \in 1..Len(written) :
        LET p == PreviousContent(i)
        IN (/\ WrittenKind(i) # ""
            /\ (p = 0 \/ WrittenKind(p) # WrittenKind(i)))
            => Cardinality({ j \in (p + 1)..(i - 1) :
                    /\ written[j].type = "response-metadata"
                    /\ written[j].info = WrittenKind(i) }) = 1


----------------------------------------------------------------------------
(* Further properties of the provider config pool *)

\* C25: release() is idempotent per handle, so the number of handles
\* acquired and not yet released for a config never exceeds its
\* maxConcurrentRequests, even when some handle is released twice.
C25_UnreleasedHandlesWithinCap ==
    \A i \in 1..Len(providers) :
        Truthy(Cap(Stored(i))) => handles[<<i, 0>>] <= Cap(Stored(i))


\* the config at position i was handed out by the getProvider() call
SelectedByCall(i) ==
    /\ op' = "getProvider"
    /\ i <= Len(providers')
    /\ handles'[<<i, 0>>] = handles[<<i, 0>>] + 1

\* C26 as stated: for each of the five strategies the config returned by
\* getProvider() was, at the moment of the call, enabled and below its
\* concurrency cap, only an unset cap counting as unbounded.
C26_Original_SelectedWasBelowCap ==
    [][ \A i \in 1..Len(providers) :
            SelectedByCall(i) =>
                /\ Stored(i).enabled
                /\ \/ Cap(Stored(i)) = UNDEF
                   \/ Stored(i).currentConcurrent < Cap(Stored(i))
      ]_vars

\* C26 (amended): for each of the five strategies the config returned by
\* getProvider() was, at the moment of the call, stored, enabled and below
\* its concurrency cap, an unset cap or a cap of 0 counting as unbounded.
C26_SelectedWasAvailable ==
    [][ \A i \in 1..Len(providers) :
            SelectedByCall(i) =>
                /\ Stored(i).enabled
                /\ \/ ~Truthy(Cap(Stored(i)))
                   \/ Stored(i).currentConcurrent < Cap(Stored(i))
      ]_vars

\* a call has returned a config while the first stored config is disabled
\* and another stored config is at its cap
C26_Witness ==
    /\ op = "getProvider"
    /\ Len(providers) = 3
    /\ ~Stored(1).enabled
    /\ \E i \in 1..Len(providers) :
            /\ Truthy(Cap(Stored(i)))
            /\ Stored(i).enabled
            /\ Stored(i).currentConcurrent = Cap(Stored(i))
    /\ \E j \in 1..Len(providers) :
            /\ handles[<<j, 0>>] > 0
            /\ Stored(j).enabled
            /\ ~Truthy(Cap(Stored(j)))


----------------------------------------------------------------------------
(* Properties of doGenerate over a provider pool *)

\* call c resolved after a single HTTP request
OneRequestCall(c) ==
    /\ c < chat.calls \/ (c = chat.calls /\ chat.pc = "resolved")
    /\ Cardinality({ i \in 1..Len(requests) : requests[i].call = c }) = 1

RequestConfigs(cs) ==
    { requests[i].config : i \in { j \in 1..Len(requests) :
                                        requests[j].call \in cs } }

\* C27: round-robin fairness holds at the level of requests: with a pool
\* of n >= 2 enabled configs without caps, n consecutive successful
\* doGenerate calls, each awaited before the next, send their HTTP
\* requests to n distinct configs.
C27_RequestsVisitEachConfig ==
    LET n == Len(providers)
    IN \A c \in 1..MaxDoGenerate :
        (\A d \in c..(c + n - 1) : d <= MaxDoGenerate /\ OneRequestCall(d))
            => Cardinality(RequestConfigs(c..(c + n - 1))) = n


----------------------------------------------------------------------------
(* Further properties of the concurrency limiter *)

\* tasks that hold a slot: started, and their .finally callback has not
\* run yet
SlotHolders == { t \in Tasks : taskStatus[t] \in {"running", "settled"} }

\* C28: the limiter is work-conserving: whenever its queue is non-empty
\* after an add() call or after a task settlement has been processed,
\* exactly `concurrency` tasks are running.
C28_WorkConserving ==
    Len(queue) > 0 => Cardinality(SlotHolders) = concurrency


----------------------------------------------------------------------------
(* Further properties of the retry wrapper *)

\* fn fails on every invocation the wrapper can make, and shouldRetry
\* permits every retry
AlwaysFailing == failFirst > retries /\ shouldRetry = "always"

\* C29 as stated: if fn fails on every invocation and shouldRetry always
\* permits a retry, fn is invoked exactly retries + 1 times, strictly one
\* after another, and the call then rejects with the error of the last
\* attempt.
C29_Original_RetriesPlusOneInTurn ==
    AlwaysFailing =>
        /\ fnCalls <= retries + 1
        /\ fnRunning <= 1
        /\ retryPc # "resolved"
        /\ retryPc = "rejected" =>
                /\ fnCalls = retries + 1
                /\ retryResult \in {"error", TimeoutError}

\* C29 (amended): fn is invoked exactly retries + 1 times and the call
\* then rejects with the error of the last attempt, the timeout error if
\* the maxTimeout timer outlasted it; every invocation starts after the
\* previous attempt has ended, and as long as no attempt was ended by the
\* timer at most one invocation is in flight and the error is fn's own.
C29_RetriesPlusOne ==
    AlwaysFailing =>
        /\ fnCalls <= retries + 1
        /\ fnCalls = attempt + (IF retryPc = "idle" THEN 0 ELSE 1)
        /\ ~timedOut => fnRunning <= 1
        /\ retryPc # "resolved"
        /\ retryPc = "rejected" =>
                /\ fnCalls = retries + 1
                /\ onRetryCalls = retries
                /\ retryResult \in {"error", TimeoutError}
                /\ ~timedOut => retryResult = "error"

\* retries = 2: rejected with fn's error after three invocations, none of
\* them ended by the timer
C29_Witness ==
    /\ retryPc = "rejected"
    /\ AlwaysFailing /\ ~timedOut
    /\ retries = 2
    /\ fnCalls = 3
    /\ fnRunning = 0
    /\ retryResult = "error"

\* the catch block has just handled a failed attempt for which shouldRetry
\* returned false
RefusedRetry ==
    /\ retryPc = "racing"
    /\ retryPc' \notin {"racing", "resolved"}
    /\ ~ShouldRetryFlag(shouldRetry, attempt)

\* C30: if shouldRetry returns false for a failed attempt, no further
\* attempt is made: the call rejects with that attempt's error without
\* calling onRetry and without scheduling a delay, even when attempt <
\* retries.
C30_RefusedRetryRejectsAtOnce ==
    [][ /\ RefusedRetry =>
            /\ retryPc' = "rejected"
            /\ retryResult' = IF fnRunning' < fnRunning
                              THEN "error" ELSE TimeoutError
            /\ onRetryCalls' = onRetryCalls
            /\ previousAttempts' = previousAttempts
            /\ fnCalls' = fnCalls
        /\ retryPc = "rejected" =>
            /\ retryPc' = "rejected"
            /\ fnCalls' = fnCalls
            /\ onRetryCalls' = onRetryCalls
            /\ retryResult' = retryResult
      ]_vars

\* shouldRetry allowed the retry of attempt 0 and refused the one of
\* attempt 1: rejected after two invocations although retries is larger
C30_Witness ==
    /\ retryPc = "rejected"
    /\ shouldRetry = "once"
    /\ attempt = 1 /\ retries >= 3
    /\ fnCalls = 2
    /\ onRetryCalls = 1
    /\ retryResult = "error"

\* C31: in generatateText a step is followed by a `continue` step only if
\* the model response of that step has finishReason "length" and carries no
\* tool calls; a response with tool calls is never followed by a `continue`
\* step.  Step k + 1 is entered as entered[k + 1], after step k has been
\* recorded as stepResults[k].
C31_ContinueOnlyAfterLengthWithoutToolCalls ==
    \A k \in 1..Len(stepResults) :
        /\ (k < Len(entered) /\ entered[k + 1] = "continue")
              => /\ stepResults[k].finishReason = "length"
                 /\ Len(stepResults[k].toolCalls) = 0
        /\ (k < Len(entered) /\ Len(stepResults[k].toolCalls) > 0)
              => entered[k + 1] # "continue"

\* a `continue` step was entered, and a response with finishReason "length"
\* that carried tool calls was followed by a `tool-result` step
C31_Witness ==
    /\ \E k \in 1..Len(stepResults) :
          k < Len(entered) /\ entered[k + 1] = "continue"
    /\ \E k \in 1..Len(stepResults) :
          /\ k < Len(entered)
          /\ stepResults[k].finishReason = "length"
          /\ Len(stepResults[k].toolCalls) > 0
          /\ entered[k + 1] = "tool-result"

\* C32: after a step that was not entered as a `continue` step the running
\* text is the model text of that step alone.  The model text of step k is
\* <<k>>; stepResults[k].text is the running text after step k.
C32_NormalStepReplacesText ==
    \A k \in 1..Len(stepResults) :
        entered[k] # "continue" => stepResults[k].text = <<k>>

\* C33: once model.doGenerate has rejected (the only event that calls
\* onError), generatateText has rejected with the model's error, onError
\* has been called exactly once, and doGenerate is not called again: the
\* rejected call is the last one, one more than the steps completed.
C33_ModelFailureIsFatal ==
    onErrorCalls > 0 =>
        /\ genPc = "threw"
        /\ genOutcome = [kind |-> "throw", error |-> "doGenerate-error"]
        /\ onErrorCalls = 1
        /\ doGenerateCalls = Len(stepResults) + 1

\* the model rejected after at least two completed steps
C33_Witness ==
    /\ onErrorCalls = 1
    /\ genPc = "threw"
    /\ genOutcome.kind = "throw"
    /\ Len(stepResults) >= 2

\* the usage reports among the chunks of log
RECURSIVE UsageReports(_)
UsageReports(log) ==
    IF log = <<>> THEN 0
    ELSE (IF Head(log)[2] = "finish" /\ Head(log)[3] = "usage" THEN 1 ELSE 0)
         + UsageReports(Tail(log))

\* n usage reports of UsageOne summed with addLanguageModelUsage
RECURSIVE SumOfReports(_)
SumOfReports(n) ==
    IF n = 0
    THEN [defined |-> TRUE, promptTokens |-> 0, cachedTokens |-> UNDEF,
          completionTokens |-> 0, totalTokens |-> 0]
    ELSE IF n = 1 THEN UsageOne
    ELSE addLanguageModelUsage(SumOfReports(n - 1), UsageOne)

SameTokenCounts(u1, u2) ==
    /\ u1.promptTokens = u2.promptTokens
    /\ u1.completionTokens = u2.completionTokens
    /\ u1.totalTokens = u2.totalTokens

\* C34: the usage promise of a streamText call resolves to the sum, by
\* addLanguageModelUsage, of the usage the model reported in every round of
\* the call, rounds that ended in tool calls included: the reports are the
\* finish chunks with usage of the model's streams, those that were read
\* and those still in a stream when the loop left it for the next round.
C34_UsageSumsEveryRound ==
    promises["usage"].status = "fulfilled" =>
        SameTokenCounts(promises["usage"].value,
                        SumOfReports(UsageReports(readLog \o unread)))

\* the usage promise is the sum of the usage reports that were read
UsageSumsReadReports ==
    promises["usage"].status = "fulfilled" =>
        SameTokenCounts(promises["usage"].value,
                        SumOfReports(UsageReports(readLog)))

AllSettled == \A n \in PromiseNames : promises[n].status # "pending"

\* the producer stops at its next test of the signal: model.doStream is not
\* called again and no chunk is handled except the one whose read was
\* pending when the signal was set; after it the producer does not read
AbortStopsLoops ==
    [][aborted => /\ rounds' = rounds
                  /\ (readLog' # readLog => pc = "read" /\ pc' # "read")
                  /\ (pc # "read" => pc' # "read")]_vars

\* the call has ended: every result promise is settled and the pipe is
\* closed by writer.close(), or ended by writer.abort() or the consumer
CallEnded ==
    /\ AllSettled
    /\ pipe \in {"closed", "errored", "cancelled"}
    /\ pc \in {"done", "failed"}

\* every await of processStream that is pending settles (model.doStream,
\* reader.read(), executeTools), and the consumer of fullStream goes on
\* taking the parts that are queued, which lets writer.close() settle
AwaitsSettle ==
    /\ WF_vars(doStreamResolves \/ doStreamRejects)
    /\ WF_vars((\E value \in LiveChunks : readChunk(value))
                  \/ readDone \/ readRejects)
    /\ WF_vars(toolsSettle)
    /\ WF_vars(consumerRead)
    /\ WF_vars(closeResolvesDrained)

\* C35 as stated: once the abort signal of a streamText call is set the
\* producer stops at its next test of the signal and the call does not
\* hang, whatever the model, the tools and the consumer do: every result
\* promise settles and the pipe is ended.
C35_Original_AbortAlwaysEndsCall ==
    /\ AbortStopsLoops
    /\ (aborted ~> CallEnded)

\* C35: once the abort signal of a streamText call is set the producer
\* stops at its next test of the signal: model.doStream is not called
\* again and no chunk is handled except the one whose read was pending.
\* If moreover every pending await of the producer settles and the consumer
\* keeps taking the queued parts, the call ends: every result promise
\* settles and the pipe is closed or ended.
C35_AbortStopsProducer ==
    /\ AbortStopsLoops
    /\ (AwaitsSettle => (aborted ~> CallEnded))

\* the signal was set while a read was pending after a first round that
\* ended in tool calls; the producer has ended and the promises resolved
C35_Witness ==
    /\ aborted
    /\ pc = "done"
    /\ pipe = "closed"
    /\ rounds >= 1
    /\ Len(readLog) >= 2
    /\ state.currentStepState = "continue"
    /\ promises["finishReason"].status = "fulfilled"

\* C36: when a streamText round fails after parts were written to the
\* pipe, a consumer of fullStream receives every part written before the
\* failure before it observes the stream error, however far it had read
\* when the failure occurred.  A consumer that has observed the error has
\* then taken all the parts written.
C36_PartsDeliveredBeforeError ==
    consumer = "failed" => taken = Len(written)

\* a tool-call chunk naming a tool that is not in `tools` has been read
UnknownToolCallRead ==
    /\ streamTools.defined
    /\ \E i \in 1..Len(readLog) :
          /\ readLog[i][2] = "tool-call"
          /\ FindTool(streamTools.list, readLog[i][3]) = 0

\* C37: in streamText a tool-call chunk that names a tool not present in
\* `tools` does not fail the call: once executeTools has settled for it no
\* result promise is rejected with the failure of that tool call.
C37_UnknownToolDoesNotFailCall ==
    (UnknownToolCallRead /\ pc # "tools") =>
        \A n \in PromiseNames :
            ~(promises[n].status = "rejected"
              /\ promises[n].value = "TypeError")

\* C38: streamText calls model.doStream at most maxSteps times, whatever
\* the model does.
C38_AtMostMaxStepsRounds == rounds <= maxSteps

\* C39: every pool handle acquired while serving a doGenerate call of the
\* OpenAI-compatible model is released by the time the call settles.  The
\* calls are made one after another on a pool whose counters start at 0,
\* so whenever a call has settled every config's currentConcurrent is 0.
C39_HandlesReleasedWhenSettled ==
    chat.pc \in {"resolved", "rejected"} =>
        \A i \in 1..Len(providers) : providers[i].currentConcurrent = 0

\* C40: once the dispose function registerProvider returned has been
\* called, the registry holds no cached model list for that provider id,
\* also when the provider's refresh promise resolves after the dispose: an
\* id that is not registered has no entry in _providerModels.
C40_NoCacheForDisposedProvider ==
    \A id \in ProviderIds :
        (\A i \in 1..Len(registry.providers) : registry.providers[i] # id)
            => registry.providerModels[id] = NoModels

====
